---- MODULE Spec2Model ----
(***************************************************************************)
(* Model of UnifiedRAGSystem (src/core/rag_system.py): the collections map, *)
(* the vector store behind it, the embedding cache and the operations       *)
(* add_documents, search, clear_collection, load_curriculum_data and the    *)
(* construction of the object on a process (re)start.                       *)
(*                                                                         *)
(* Texts are sequences of one-character strings, so that split(), strip()  *)
(* and string concatenation are computed and not assumed.  md5 is taken to  *)
(* be collision free: a document id is the string that is hashed.           *)
(* Scores are integers in units of 1/ScoreScale.                            *)
(***************************************************************************)
EXTENDS Integers, Sequences, FiniteSets, TLC

\* ---------------------------------------------------------------- bounds
MaxDocs == 2
MaxRecords == 2
MaxClock == 1
MaxCalls == 2
MaxTopics == 2
MaxCandidates == 3
MaxKeys == 11
MaxSelected == 4
MaxAvailable == 10

\* ------------------------------------------------------ program constants
SaveEvery == 10
DefaultBatchSize == 100
FetchFactor == 2
ScoreScale == 100000
DistanceUnits == 10

\* ------------------------------------------------------------- universe
Contents == { <<>>, <<"a">> }
Queries == { <<>>, <<"a">> }

\* what the curriculum loader yields: flat topics with a title and a subject
Titles == { <<>>, <<"a">>, <<"b">> }
Topics == { [title |-> t, subject |-> <<"m">>] : t \in Titles }

\* f"Başlık: {topic['title']}"
TitlePart(title) == << "T", ":", " " >> \o title

\* a query, a text that answers it well and a text that answers it partly
RankQuery == << "a", " ", "b" >>
NearText == << "a", " ", "b", " ", "c" >>
FarText == << "a" >>

\* the selected topics of the curriculum helpers: topic["ders"] is one of
\* CourseNames; topic["sinif"] is a string of digits (kind "digits", its
\* number n), a word such as "Hazirlik" (kind "word"), or a string for which
\* isdigit() holds and int() raises ValueError, such as a superscript two
\* (kind "super")
CourseNames == { <<"m">>, <<"f">> }
Digits(n) == [ kind |-> "digits", n |-> n ]
WordGrade == [ kind |-> "word", n |-> 0 ]
SuperGrade == [ kind |-> "super", n |-> 2 ]
GradeValues == { Digits(9), Digits(10), WordGrade, SuperGrade }
ShiftedGrades == GradeValues \cup { Digits(8), Digits(11) }

\* str(grade) inside an f-string
GradeText(grade) ==
    CASE grade.kind = "word" -> << "h" >>
      [] grade.kind = "super" -> << "^" >>
      [] grade.n < 10 -> << ToString(grade.n) >>
      [] OTHER -> << ToString(grade.n \div 10), ToString(grade.n % 10) >>

\* the query of a relation: f"{subject} {grade}. sinif", with " temel" or
\* " ileri" after it
RelatedQuery(subject, grade, relation_type) ==
    subject \o << " " >> \o GradeText(grade) \o << "." >>
    \o (CASE relation_type = "prerequisite" -> << " ", "t" >>
           [] relation_type = "advanced" -> << " ", "i" >>
           [] OTHER -> <<>>)

\* f"{subject} mufredat konular"
CoverageQuery(subject) == subject \o << " ", "k" >>

RelationTypes == { "similar", "prerequisite", "advanced" }

Texts == Contents \cup Queries \cup { TitlePart(t) : t \in Titles \ { <<>> } }
         \cup { RankQuery, NearText, FarText }
         \cup { RelatedQuery(s, g, r) : s \in CourseNames, g \in ShiftedGrades, r \in RelationTypes }
         \cup { CoverageQuery(s) : s \in CourseNames }
Subjects == { <<>>, <<"m">> }

\* a metadata dict: an empty string or 0 stands for a key that is not there
NoMeta == [subject |-> <<>>, exam_type |-> <<>>, added_at |-> 0]
Metas == { [subject |-> s, exam_type |-> <<>>, added_at |-> 0] : s \in Subjects \ { <<>> } }

\* a document as the caller passes it; has_meta is whether the dict has a
\* "metadata" key at all
PlainDocs == { [content |-> c, has_meta |-> FALSE, metadata |-> NoMeta] : c \in Contents }
TaggedDocs == { [content |-> <<"a">>, has_meta |-> TRUE, metadata |-> m] : m \in Metas }
Docs == PlainDocs \cup TaggedDocs

\* documents for ranking: the near text without metadata, with a subject, with
\* a capitalised subject and an exam type, and the far text
RankDocs ==
    { [content |-> NearText, has_meta |-> FALSE, metadata |-> NoMeta],
      [content |-> NearText, has_meta |-> TRUE, metadata |-> [subject |-> <<"m">>, exam_type |-> <<>>, added_at |-> 0]],
      [content |-> NearText, has_meta |-> TRUE, metadata |-> [subject |-> <<"M">>, exam_type |-> <<"Y">>, added_at |-> 0]],
      [content |-> FarText, has_meta |-> FALSE, metadata |-> NoMeta] }

RECURSIVE SeqsUpTo(_, _)
SeqsUpTo(S, n) ==
    IF n = 0 THEN { <<>> }
    ELSE LET shorter == SeqsUpTo(S, n - 1)
         IN  shorter \cup { Append(s, x) : s \in { t \in shorter : Len(t) = n - 1 }, x \in S }

Range(s) == { s[i] : i \in 1..Len(s) }

\* ------------------------------------------------------ names of collections
\* required_collections: logical key -> name of the collection in the store
RequiredKeys == << "curriculum", "conversations", "documents", "questions", "web_content", "youtube_content" >>

ActualName(key) ==
    CASE key = "curriculum" -> "yks_curriculum"
      [] key = "documents" -> "uploaded_documents"
      [] key = "questions" -> "generated_questions"
      [] OTHER -> key

\* collection_names of _load_or_create_collections, in its order
CachedNames == << "yks_curriculum", "conversations", "uploaded_documents", "generated_questions", "web_content", "youtube_content" >>

\* name.replace("yks_", ""): only "yks_curriculum" contains the substring
CacheKey(name) == IF name = "yks_curriculum" THEN "curriculum" ELSE name

\* names a caller passes to add_documents, search and clear_collection
InputNames == { "curriculum", "documents", "uploaded_documents", "notes" }

\* ------------------------------------------------------------ text functions
IsSpace(ch) == ch = " "

\* str.split(): the maximal runs of non-whitespace characters
RECURSIVE SplitFrom(_, _, _)
SplitFrom(text, i, word) ==
    IF i > Len(text)
    THEN IF word = <<>> THEN {} ELSE { word }
    ELSE IF IsSpace(text[i])
         THEN (IF word = <<>> THEN {} ELSE { word }) \cup SplitFrom(text, i + 1, <<>>)
         ELSE SplitFrom(text, i + 1, Append(word, text[i]))

Terms(text) == SplitFrom(text, 1, <<>>)

\* str.strip() is non-empty
StripNonEmpty(text) == \E i \in 1..Len(text) : ~IsSpace(text[i])

\* str(metadata) of a dict, keys in insertion order
MetaStr(m) ==
    <<"{">>
    \o (IF m.subject # <<>> THEN << "subject" >> \o m.subject ELSE <<>>)
    \o (IF m.exam_type # <<>> THEN << "exam_type" >> \o m.exam_type ELSE <<>>)
    \o (IF m.added_at # 0 THEN << "added_at", ToString(m.added_at) >> ELSE <<>>)
    \o <<"}">>

\* _generate_document_id(content + metadata_str)
GenerateDocumentId(text) == text

\* f"{original_id}_{counter}"
Suffixed(original_id, counter) == original_id \o << "_", ToString(counter) >>

\* the while loop of add_documents that makes doc_id unique within ids
RECURSIVE UniqueId(_, _, _)
UniqueId(original_id, counter, ids) ==
    LET doc_id == IF counter = 0 THEN original_id ELSE Suffixed(original_id, counter)
    IN  IF doc_id \in Range(ids) THEN UniqueId(original_id, counter + 1, ids) ELSE doc_id

\* ------------------------------------------------------------------ state
VARIABLES
    collections,      \* self.collections: the dict key -> collection handle, in insertion order
    chroma,           \* the persistent store: collection name -> set of stored records
    embedding_cache,  \* self._embedding_cache: cache key -> vector
    cache_file,       \* embedding_cache.pkl: the pickled cache on disk
    marker,           \* collections_cache.pkl exists
    provider_calls,   \* number of generate_embeddings calls per text (saturating at MaxCalls)
    clock,            \* datetime.now()
    last              \* the call that completed last: its arguments and what it returned

vars == << collections, chroma, embedding_cache, cache_file, marker, provider_calls, clock, last >>

\* ------------------------------------------------------- the collections dict
Keys(m) == { m[i].key : i \in 1..Len(m) }

Handle(m, key) == m[CHOOSE i \in 1..Len(m) : m[i].key = key].handle

\* m[key] = handle
Bind(m, key, handle) ==
    IF key \in Keys(m)
    THEN [ i \in 1..Len(m) |-> IF m[i].key = key THEN [key |-> key, handle |-> handle] ELSE m[i] ]
    ELSE Append(m, [key |-> key, handle |-> handle])

\* ------------------------------------------------------------ the vector store
\* client.get_collection(name) succeeds
Exists(ch, name) == name \in DOMAIN ch

\* the store after _get_or_create_collection(name); the handle returned is name
GetOrCreateCollection(ch, name) ==
    IF Exists(ch, name) THEN ch
    ELSE [ n \in DOMAIN ch \cup {name} |-> IF n = name THEN {} ELSE ch[n] ]

StoredIds(recs) == { r.id : r \in recs }

\* collection.add(ids, embeddings, documents, metadatas): the ids of one call
\* are distinct (add_documents makes them so); a record whose id is already
\* stored is left as it is.  The field under of a record is history, not
\* data: the collection names the record was passed to add_documents with.
CollectionAdd(recs, new) ==
    LET NewUnder(id) == UNION { new[j].under : j \in { k \in 1..Len(new) : new[k].id = id } }
    IN  { [ r EXCEPT !.under = r.under \cup NewUnder(r.id) ] : r \in recs }
        \cup { new[i] : i \in { j \in 1..Len(new) : new[j].id \notin StoredIds(recs) } }

TotalRecords(ch) ==
    LET RECURSIVE Sum(_)
        Sum(S) == IF S = {} THEN 0
                  ELSE LET n == CHOOSE x \in S : TRUE IN Cardinality(ch[n]) + Sum(S \ {n})
    IN  Sum(DOMAIN ch)

\* ------------------------------------------------------ embedding provider
\* gemini_client.generate_embeddings(text): the vector of a text
Embed(text) == << "vec", text >>

NoFail == [kind |-> "none", at |-> 0, err |-> "none"]

\* where a call fails: the provider call made for the at-th document, or the
\* store write of the at-th batch
AddFailures(n) ==
    { NoFail }
    \cup { [kind |-> "embed", at |-> i, err |-> e] : i \in 1..n, e \in { "shutdown", "other" } }
    \cup { [kind |-> "add", at |-> b, err |-> "storage"] : b \in 1..n }

Bump(calls, text) ==
    [ calls EXCEPT ![text] = IF @ < MaxCalls THEN @ + 1 ELSE @ ]

\* self._embedding_cache[cache_key] = embedding
CachePut(cache, key, vec) ==
    [ k \in DOMAIN cache \cup {key} |-> IF k = key THEN vec ELSE cache[k] ]

\* a _get_embedding that enters the key in the cache before the provider has
\* answered
GetEmbeddingEarly(st, text, cache_key, use_key, fails, err) ==
    IF use_key /\ cache_key \in DOMAIN st.cache
    THEN [ st EXCEPT !.vec = st.cache[cache_key] ]
    ELSE LET called == [ st EXCEPT !.calls = Bump(st.calls, text), !.sent = Append(st.sent, text),
                                   !.cache = IF use_key THEN CachePut(st.cache, cache_key, <<>>) ELSE st.cache ]
         IN  IF fails THEN [ called EXCEPT !.status = err ]
             ELSE [ called EXCEPT !.vec = Embed(text),
                                  !.cache = IF use_key THEN CachePut(st.cache, cache_key, Embed(text)) ELSE st.cache ]

\* a _get_embedding that saves the cache at every twentieth entry
GetEmbeddingRarely(st, text, cache_key, use_key, fails, err) ==
    IF use_key /\ cache_key \in DOMAIN st.cache
    THEN [ st EXCEPT !.vec = st.cache[cache_key] ]
    ELSE LET called == [ st EXCEPT !.calls = Bump(st.calls, text), !.sent = Append(st.sent, text) ]
         IN  IF fails THEN [ called EXCEPT !.status = err ]
             ELSE IF ~use_key THEN [ called EXCEPT !.vec = Embed(text) ]
             ELSE LET cache2 == CachePut(called.cache, cache_key, Embed(text))
                  IN  [ called EXCEPT !.vec = Embed(text),
                                      !.cache = cache2,
                                      !.file = IF Cardinality(DOMAIN cache2) % (2 * SaveEvery) = 0
                                               THEN cache2 ELSE called.file ]

\* _get_embedding(text, cache_key) on the state st; fails says that the
\* provider raises err.  Gives st with the vector in st.vec, or with
\* st.status the error that was raised.
GetEmbedding(st, text, cache_key, use_key, fails, err) ==
    IF use_key /\ cache_key \in DOMAIN st.cache
    THEN [ st EXCEPT !.vec = st.cache[cache_key] ]
    ELSE LET called == [ st EXCEPT !.calls = Bump(st.calls, text), !.sent = Append(st.sent, text) ]
         IN  IF fails THEN [ called EXCEPT !.status = err ]
             ELSE IF ~use_key THEN [ called EXCEPT !.vec = Embed(text) ]
             ELSE LET cache2 == CachePut(called.cache, cache_key, Embed(text))
                  IN  [ called EXCEPT !.vec = Embed(text),
                                      !.cache = cache2,
                                      !.file = IF Cardinality(DOMAIN cache2) % SaveEvery = 0
                                               THEN cache2 ELSE called.file ]

\* ------------------------------------------------------------ add_documents
\* doc.get("metadata", {})
MetaOf(doc) == IF doc.has_meta THEN doc.metadata ELSE NoMeta

\* The batches loop of add_documents from document i on.  st carries the
\* cache, the cache file, the provider calls, the records of the collection,
\* the documents (whose metadata the loop stamps), the ids, vectors and
\* records of the batch in progress, all ids derived and the batches written.
RECURSIVE AddLoop(_, _, _, _, _, _)
AddLoop(st, i, n, batch_size, fail, now) ==
    IF st.status # "ok" \/ i > n THEN st
    ELSE
    LET doc == st.docs[i]
        first == (i - 1) % batch_size = 0
        ids0 == IF first THEN <<>> ELSE st.ids
        new0 == IF first THEN <<>> ELSE st.new
        content == doc.content
        metadata_str == MetaStr(MetaOf(doc))
        doc_id == UniqueId(GenerateDocumentId(content \o metadata_str), 0, ids0)
        metadata == [ MetaOf(doc) EXCEPT !.added_at = now ]
        stamped == IF doc.has_meta THEN [ doc EXCEPT !.metadata = metadata ] ELSE doc
        st1 == [ st EXCEPT !.ids = Append(ids0, doc_id),
                           !.all_ids = Append(st.all_ids, doc_id),
                           !.docs = [ st.docs EXCEPT ![i] = stamped ] ]
        st2 == GetEmbedding(st1, content, doc_id, TRUE, fail.kind = "embed" /\ fail.at = i, fail.err)
        rec == [ id |-> doc_id, content |-> content, metadata |-> metadata, embedding |-> st2.vec,
                 under |-> { st.name } ]
        st3 == [ st2 EXCEPT !.new = Append(new0, rec) ]
        last_of_batch == i % batch_size = 0 \/ i = n
        batch_no == ((i - 1) \div batch_size) + 1
        st4 == IF ~last_of_batch THEN st3
               ELSE IF fail.kind = "add" /\ fail.at = batch_no
                    THEN [ st3 EXCEPT !.status = fail.err ]
                    ELSE [ st3 EXCEPT !.recs = CollectionAdd(st3.recs, st3.new),
                                      !.written = Append(st3.written, batch_no) ]
    IN  IF st2.status # "ok" THEN st2 ELSE AddLoop(st4, i + 1, n, batch_size, fail, now)

\* an add_documents without the branch for the shutdown error
AddReturnStrict(status) == status = "ok"

\* what add_documents returns when its loop ended with status
AddReturn(status) == status \in { "ok", "shutdown" }

\* ------------------------------------------------------------------ search
\* str.lower()
LowerChar(ch) == CASE ch = "A" -> "a" [] ch = "B" -> "b" [] ch = "M" -> "m" [] OTHER -> ch

Lower(text) == [ i \in 1..Len(text) |-> LowerChar(text[i]) ]

\* w in s, for strings
IsSubstring(w, s) ==
    \E k \in 0..(Len(s) - Len(w)) : \A i \in 1..Len(w) : s[k + i] = w[i]

\* self.default_search_config; weights and lambda in tenths
DefaultSearchConfig ==
    [ keys |-> { "semantic_weight", "keyword_weight", "rerank", "use_mmr", "mmr_lambda" },
      semantic_weight |-> 7, keyword_weight |-> 3, use_mmr |-> TRUE, mmr_lambda |-> 7 ]

\* search_config = None
NoConfig == [ keys |-> {}, semantic_weight |-> 0, keyword_weight |-> 0, use_mmr |-> FALSE, mmr_lambda |-> 0 ]

\* the defaults with the keys of search_config laid over them
MergedConfig(search_config) ==
    [ keys |-> DefaultSearchConfig.keys,
      semantic_weight |-> IF "semantic_weight" \in search_config.keys THEN search_config.semantic_weight
                          ELSE DefaultSearchConfig.semantic_weight,
      keyword_weight |-> IF "keyword_weight" \in search_config.keys THEN search_config.keyword_weight
                         ELSE DefaultSearchConfig.keyword_weight,
      use_mmr |-> IF "use_mmr" \in search_config.keys THEN search_config.use_mmr ELSE DefaultSearchConfig.use_mmr,
      mmr_lambda |-> IF "mmr_lambda" \in search_config.keys THEN search_config.mmr_lambda
                     ELSE DefaultSearchConfig.mmr_lambda ]

\* config = search_config or self.default_search_config
EffectiveConfig(search_config) ==
    IF search_config.keys = {} THEN DefaultSearchConfig ELSE search_config

\* config.get(key, default)
ConfigGet(config, key, default) ==
    IF key \notin config.keys THEN default
    ELSE CASE key = "semantic_weight" -> config.semantic_weight
           [] key = "keyword_weight" -> config.keyword_weight
           [] key = "use_mmr" -> config.use_mmr
           [] key = "mmr_lambda" -> config.mmr_lambda

\* user_context = None
NoContext == [ given |-> FALSE, weak_subjects |-> <<>>, exam_target |-> <<>> ]

\* filter_metadata = None
NoFilter == [ given |-> FALSE, subject |-> <<>> ]

\* the cosine distance of two vectors as the store reports it, in units of
\* 1/DistanceUnits: 0 for the vectors of equal texts, and the smaller the
\* larger the share of their terms that two texts have in common
Distance(v1, v2) ==
    LET t1 == Terms(Lower(v1[2]))
        t2 == Terms(Lower(v2[2]))
    IN  IF v1 = v2 THEN 0
        ELSE IF t1 \cap t2 = {} THEN DistanceUnits
        ELSE DistanceUnits - (DistanceUnits * Cardinality(t1 \cap t2)) \div Cardinality(t1 \cup t2)

\* where = filter_metadata: exact match on the metadata
Matches(rec, filter) == ~filter.given \/ rec.metadata.subject = filter.subject

\* collection.query(query_embeddings, n_results, where): the n nearest
\* matching records by increasing distance; records at equal distance come in
\* any order
QueryResults(recs, qvec, n, filter) ==
    LET matching == { r \in recs : Matches(r, filter) }
        k == IF Cardinality(matching) < n THEN Cardinality(matching) ELSE n
    IN  { s \in SeqsUpTo(matching, k) :
            /\ Len(s) = k
            /\ \A i, j \in 1..k : i < j => s[i] # s[j] /\ Distance(qvec, s[i].embedding) <= Distance(qvec, s[j].embedding)
            /\ \A r \in matching \ Range(s) : \A i \in 1..k : Distance(qvec, s[i].embedding) <= Distance(qvec, r.embedding) }

\* a candidate of search carries no "embedding" key
NoEmbedding == <<>>

\* the result dict search builds for a fetched record
Candidate(rec, qvec, coll_name) ==
    [ id |-> rec.id, content |-> rec.content, metadata |-> rec.metadata,
      distance |-> Distance(qvec, rec.embedding), collection |-> coll_name,
      score |-> (DistanceUnits - Distance(qvec, rec.embedding)) * (ScoreScale \div DistanceUnits),
      embedding |-> NoEmbedding ]

\* the fetch loop of search over the selected collections (the local dict
\* selected) from the i-th on: every list all_results the store can produce
RECURSIVE FetchAll(_, _, _, _, _, _)
FetchAll(selected, ch, i, qvec, n_results, filter) ==
    IF i > Len(selected) THEN { <<>> }
    ELSE LET here == QueryResults(ch[selected[i].handle], qvec, n_results * FetchFactor, filter)
             rest == FetchAll(selected, ch, i + 1, qvec, n_results, filter)
         IN  { [ j \in 1..Len(h) |-> Candidate(h[j], qvec, selected[i].key) ] \o r : h \in here, r \in rest }

\* a blend with the two weights exchanged
ApplyKeywordScoringSwapped(query, results, config) ==
    LET query_terms == Terms(Lower(query))
        Blend(result) ==
            LET common_terms == query_terms \cap Terms(Lower(result.content))
                keyword_score == IF query_terms # {}
                                 THEN (Cardinality(common_terms) * ScoreScale) \div Cardinality(query_terms)
                                 ELSE 0
            IN  [ result EXCEPT !.score = (ConfigGet(config, "keyword_weight", 3) * result.score
                                           + ConfigGet(config, "semantic_weight", 7) * keyword_score) \div 10 ]
    IN  [ i \in 1..Len(results) |-> Blend(results[i]) ]

\* _apply_keyword_scoring
ApplyKeywordScoring(query, results, config) ==
    LET query_terms == Terms(Lower(query))
        Blend(result) ==
            LET content_terms == Terms(Lower(result.content))
                common_terms == query_terms \cap content_terms
                keyword_score == IF query_terms # {}
                                 THEN (Cardinality(common_terms) * ScoreScale) \div Cardinality(query_terms)
                                 ELSE 0
                semantic_weight == ConfigGet(config, "semantic_weight", 7)
                keyword_weight == ConfigGet(config, "keyword_weight", 3)
            IN  [ result EXCEPT !.score = (semantic_weight * result.score + keyword_weight * keyword_score) \div 10 ]
    IN  [ i \in 1..Len(results) |-> Blend(results[i]) ]

\* _apply_personalization
ApplyPersonalization(results, user_context) ==
    LET weak_subjects == user_context.weak_subjects
        exam_target == user_context.exam_target
        Weak(result) ==
            IF weak_subjects # <<>>
               /\ \E w \in Range(weak_subjects) : IsSubstring(w, Lower(result.metadata.subject))
            THEN [ result EXCEPT !.score = (result.score * 12) \div 10 ]
            ELSE result
        Exam(result) ==
            IF exam_target # <<>> /\ IsSubstring(exam_target, result.metadata.exam_type)
            THEN [ result EXCEPT !.score = (result.score * 11) \div 10 ]
            ELSE result
    IN  [ i \in 1..Len(results) |-> Exam(Weak(results[i])) ]

\* all_results.sort(key=score, reverse=True): stable, descending
RECURSIVE SortByScore(_)
SortByScore(results) ==
    IF results = <<>> THEN <<>>
    ELSE LET best == CHOOSE i \in 1..Len(results) :
                        /\ \A j \in 1..Len(results) : results[j].score <= results[i].score
                        /\ \A j \in 1..(i - 1) : results[j].score < results[i].score
             others == [ j \in 1..(Len(results) - 1) |-> IF j < best THEN results[j] ELSE results[j + 1] ]
         IN  << results[best] >> \o SortByScore(others)

\* cosine_similarity of two vectors, in units of 1/ScoreScale
CosineSimilarity(v1, v2) == (DistanceUnits - Distance(v1, v2)) * (ScoreScale \div DistanceUnits)

Max(a, b) == IF a >= b THEN a ELSE b

\* an mmr score that prefers the lower relevance
MmrScoreNegated(candidate, selected, lambda_param) == 0 - candidate.score

\* the mmr score of one candidate against the selected documents
MmrScore(candidate, selected, lambda_param) ==
    IF candidate.embedding = NoEmbedding THEN candidate.score
    ELSE LET RECURSIVE MaxSim(_, _)
             MaxSim(i, acc) ==
                 IF i > Len(selected) THEN acc
                 ELSE MaxSim(i + 1, IF selected[i].embedding # NoEmbedding
                                    THEN Max(acc, CosineSimilarity(candidate.embedding, selected[i].embedding))
                                    ELSE acc)
         IN  (lambda_param * candidate.score - (10 - lambda_param) * MaxSim(1, 0)) \div 10

\* _apply_mmr
RECURSIVE MmrLoop(_, _, _, _)
MmrLoop(selected, candidates, n_results, lambda_param) ==
    IF ~(Len(selected) < n_results /\ candidates # <<>>) THEN selected
    ELSE LET mmr_scores == [ i \in 1..Len(candidates) |-> MmrScore(candidates[i], selected, lambda_param) ]
             best_idx == CHOOSE i \in 1..Len(candidates) :
                            /\ \A j \in 1..Len(candidates) : mmr_scores[j] <= mmr_scores[i]
                            /\ \A j \in 1..(i - 1) : mmr_scores[j] < mmr_scores[i]
             remaining == [ j \in 1..(Len(candidates) - 1) |-> IF j < best_idx THEN candidates[j] ELSE candidates[j + 1] ]
         IN  MmrLoop(Append(selected, candidates[best_idx]), remaining, n_results, lambda_param)

ApplyMmr(results, n_results, lambda_param) ==
    IF results = <<>> THEN results
    ELSE MmrLoop(<< results[1] >>, SubSeq(results, 2, Len(results)), n_results, lambda_param)

\* all_results[:n_results]
Truncate(results, n) == SubSeq(results, 1, IF Len(results) < n THEN Len(results) ELSE n)

\* the stages of search after the fetch
Rank(query, all_results, n_results, config, user_context) ==
    LET blended == IF ConfigGet(config, "keyword_weight", 0) > 0
                   THEN ApplyKeywordScoring(query, all_results, config) ELSE all_results
        boosted == IF user_context.given THEN ApplyPersonalization(blended, user_context) ELSE blended
        sorted == SortByScore(boosted)
        diverse == IF ConfigGet(config, "use_mmr", FALSE)
                   THEN ApplyMmr(sorted, n_results, ConfigGet(config, "mmr_lambda", 7)) ELSE sorted
    IN  Truncate(diverse, n_results)

\* ------------------------------------------------------------ the last call
NoCall ==
    [ op |-> "init", name |-> "", names |-> <<>>, query |-> <<>>, n_results |-> 0,
      docs_in |-> <<>>, docs_out |-> <<>>, batch_size |-> 0,
      ids |-> <<>>, written |-> <<>>, sent |-> <<>>,
      error |-> "none", raised |-> FALSE, ret |-> TRUE, results |-> <<>>,
      force |-> FALSE, unknown |-> {}, created |-> {},
      stage |-> "done", pending |-> <<>>, fetched |-> <<>>, qvec |-> <<>>,
      filter |-> NoFilter, config |-> NoConfig, user_context |-> NoContext,
      tasks |-> <<>>, blended |-> <<>>, boosted |-> <<>>, plain |-> <<>>,
      search_config |-> NoConfig, ran |-> {},
      relation |-> "", topics |-> <<>>, searches |-> <<>>, related |-> <<>>,
      analysis |-> <<>>, recommendations |-> <<>>,
      answer |-> [ text |-> "", context |-> <<>>, searched |-> FALSE, failed |-> {} ] ]

EmptyCache == [ k \in {} |-> <<>> ]

\* a cache file that pickle.load fails on: the file was opened for writing,
\* which empties it, and the process ended before pickle.dump had written it
Unreadable == [ k \in { << "?" >> } |-> <<>> ]

\* _load_embedding_cache: the pickled dict, or {} when loading raises
LoadEmbeddingCache(file) == IF file = Unreadable THEN EmptyCache ELSE file

\* _save_embedding_cache: the file after open(path, 'wb') and pickle.dump;
\* cut says the process ends between the two
SaveEmbeddingCache(cache, cut) == IF cut THEN Unreadable ELSE cache

\* ------------------------------------------------------------ construction
\* _load_or_create_collections when the marker file is there
LoadedCollections == [ i \in 1..Len(CachedNames) |-> [key |-> CacheKey(CachedNames[i]), handle |-> CachedNames[i]] ]

\* _load_or_create_collections when it is not
FreshCollections == [ i \in 1..Len(RequiredKeys) |-> [key |-> RequiredKeys[i], handle |-> ActualName(RequiredKeys[i])] ]

\* _ensure_all_collections
RECURSIVE EnsureAllCollections(_, _)
EnsureAllCollections(m, i) ==
    IF i > Len(RequiredKeys) THEN m
    ELSE EnsureAllCollections(
             IF RequiredKeys[i] \in Keys(m) THEN m ELSE Bind(m, RequiredKeys[i], ActualName(RequiredKeys[i])),
             i + 1)

\* __init__ given whether the marker file exists
Constructed(marker_exists) ==
    EnsureAllCollections(IF marker_exists THEN LoadedCollections ELSE FreshCollections, 1)

\* the store after __init__: every collection it names exists
RECURSIVE CreateAll(_, _, _)
CreateAll(ch, names, i) ==
    IF i > Len(names) THEN ch ELSE CreateAll(GetOrCreateCollection(ch, names[i]), names, i + 1)

Init ==
    /\ collections = Constructed(FALSE)
    /\ chroma = CreateAll(EmptyCache, CachedNames, 1)
    /\ embedding_cache = EmptyCache
    /\ cache_file = EmptyCache
    /\ marker \in BOOLEAN
    /\ provider_calls = [ t \in Texts |-> 0 ]
    /\ clock = 0
    /\ last = NoCall

\* the process ends and a new one constructs the object on the same directory
Restart ==
    /\ collections' = Constructed(marker)
    /\ chroma' = CreateAll(chroma, CachedNames, 1)
    /\ embedding_cache' = LoadEmbeddingCache(cache_file)
    /\ marker' \in IF marker THEN { TRUE } ELSE BOOLEAN
    /\ last' = [ NoCall EXCEPT !.op = "restart" ]
    /\ UNCHANGED << cache_file, provider_calls, clock >>

\* ------------------------------------------------------------------ actions
\* datetime.now(): time moves on between two calls (up to MaxClock)
Now == IF clock < MaxClock THEN clock + 1 ELSE clock

BatchSizes == { 1, MaxDocs }

\* the state the batches loop starts from
LoopStart(documents, recs, collection_name) ==
    [ status |-> "ok", name |-> collection_name, cache |-> embedding_cache, file |-> cache_file, calls |-> provider_calls,
      sent |-> <<>>, vec |-> <<>>, recs |-> recs, docs |-> documents,
      ids |-> <<>>, new |-> <<>>, all_ids |-> <<>>, written |-> <<>> ]

\* add_documents on the dict m and the store ch
AddOutcome(m, ch, documents, collection_name, batch_size, fail, now) ==
    LET known == collection_name \in Keys(m)
        ch1 == IF known THEN ch ELSE GetOrCreateCollection(ch, collection_name)
        m1 == IF known THEN m ELSE Bind(m, collection_name, collection_name)
        handle == Handle(m1, collection_name)
        st == AddLoop(LoopStart(documents, ch1[handle], collection_name), 1, Len(documents), batch_size, fail, now)
    IN  [ m |-> m1, ch |-> [ ch1 EXCEPT ![handle] = st.recs ], st |-> st,
          unknown |-> { collection_name } \ Keys(m), created |-> DOMAIN ch1 \ DOMAIN ch ]

AddCall(out, documents, collection_name, batch_size) ==
    [ NoCall EXCEPT !.op = "add", !.name = collection_name,
                    !.docs_in = documents, !.docs_out = out.st.docs,
                    !.batch_size = batch_size, !.ids = out.st.all_ids,
                    !.written = out.st.written, !.sent = out.st.sent,
                    !.error = IF out.st.status = "ok" THEN "none" ELSE out.st.status,
                    !.ret = AddReturn(out.st.status),
                    !.unknown = out.unknown, !.created = out.created ]

AddDocuments(documents, collection_name, batch_size, fail, now) ==
    /\ LET out == AddOutcome(collections, chroma, documents, collection_name, batch_size, fail, now)
       IN  /\ collections' = out.m
           /\ chroma' = out.ch
           /\ embedding_cache' = out.st.cache
           /\ cache_file' = out.st.file
           /\ provider_calls' = out.st.calls
           /\ clock' = IF documents = <<>> THEN clock ELSE now
           /\ last' = AddCall(out, documents, collection_name, batch_size)
    /\ UNCHANGED marker

RECURSIVE SelectNamedUnbound(_, _, _, _, _)
RECURSIVE SelectNamed(_, _, _, _, _)

\* a selection that creates the collection of an unknown name and searches
\* it, without the assignment self.collections[name] = ...
SelectNamedUnbound(m, ch, selected, collection_names, i) ==
    IF i > Len(collection_names) THEN [ m |-> m, ch |-> ch, selected |-> selected ]
    ELSE LET name == collection_names[i]
         IN  IF name \in Keys(m)
             THEN SelectNamedUnbound(m, ch, Bind(selected, name, Handle(m, name)), collection_names, i + 1)
             ELSE SelectNamedUnbound(m, GetOrCreateCollection(ch, name),
                                     Bind(selected, name, name), collection_names, i + 1)

\* the part of search that selects the collections: m is self.collections,
\* selected the local dict; a name that is no key of self.collections is
\* created and bound in both
SelectNamed(m, ch, selected, collection_names, i) ==
    IF i > Len(collection_names) THEN [ m |-> m, ch |-> ch, selected |-> selected ]
    ELSE LET name == collection_names[i]
         IN  IF name \in Keys(m)
             THEN SelectNamed(m, ch, Bind(selected, name, Handle(m, name)), collection_names, i + 1)
             ELSE SelectNamed(Bind(m, name, name), GetOrCreateCollection(ch, name),
                              Bind(selected, name, name), collection_names, i + 1)

SelectCollections(m, ch, collection_names) ==
    IF collection_names # <<>> THEN SelectNamed(m, ch, <<>>, collection_names, 1)
    ELSE [ m |-> m, ch |-> ch, selected |-> m ]

SearchFailures ==
    { NoFail }
    \cup { [kind |-> "embed", at |-> 1, err |-> e] : e \in { "shutdown", "other" } }
    \cup { [kind |-> "query", at |-> 1, err |-> "storage"] }

\* collection_names None and [] select every collection alike; both are <<>>
Search(query, collection_names, n_results, filter_metadata, search_config, user_context, fail) ==
    LET config == EffectiveConfig(search_config)
        sel == SelectCollections(collections, chroma, collection_names)
        st == GetEmbedding(LoopStart(<<>>, {}, ""), query, <<>>, FALSE, fail.kind = "embed", fail.err)
        failed == fail.kind # "none"
    IN  /\ collections' = sel.m
        /\ chroma' = sel.ch
        /\ provider_calls' = st.calls
        /\ \E all_results \in IF failed THEN { <<>> }
                              ELSE FetchAll(sel.selected, sel.ch, 1, st.vec, n_results, filter_metadata) :
              last' = [ NoCall EXCEPT !.op = "search", !.names = collection_names, !.query = query,
                                      !.n_results = n_results, !.sent = st.sent,
                                      !.error = IF failed THEN fail.err ELSE "none",
                                      !.raised = FALSE,
                                      !.unknown = Range(collection_names) \ Keys(collections),
                                      !.created = DOMAIN sel.ch \ DOMAIN chroma,
                                      !.results = IF failed THEN <<>>
                                                  ELSE Rank(query, all_results, n_results, config, user_context) ]
        /\ UNCHANGED << embedding_cache, cache_file, marker, clock >>

\* ------------------------------------------------------ answer generation
\* n_results of the search generate_answer_with_context runs
AnswerResults == 5

\* the literal the except branch returns
Apology == "Uzgunum, sorunuzu cevaplayamadim."

\* context documents a caller supplies: none, one with content and metadata,
\* one without the key "content"
GoodDoc == [ content |-> <<"a">>, metadata |-> NoMeta, has_content |-> TRUE ]

BadDoc == [ content |-> <<>>, metadata |-> NoMeta, has_content |-> FALSE ]

\* a search result as a context document
AsContextDoc(result) == [ content |-> result.content, metadata |-> result.metadata, has_content |-> TRUE ]

\* context_parts: a source tag, "Unknown" without the key "source", and the
\* content of each document
ContextParts(context_docs) ==
    [ i \in 1..Len(context_docs) |-> [ source |-> "Unknown", content |-> context_docs[i].content ] ]

\* a call in which an exception leaves generate_answer_with_context
AnswerUncaught(context_docs, generated) ==
    LET assembled == \A i \in 1..Len(context_docs) : context_docs[i].has_content
    IN  [ text |-> IF assembled /\ generated THEN "generated" ELSE "",
          context |-> IF assembled THEN ContextParts(context_docs) ELSE <<>>,
          failed |-> IF ~assembled THEN { "assembly" } ELSE IF ~generated THEN { "provider" } ELSE {},
          raised |-> ~(assembled /\ generated) ]

\* the try block of generate_answer_with_context from the context on:
\* doc["content"] raises for a document without the key, generate_content
\* raises when generated is false, and the except branch returns the apology
AnswerOutcome(context_docs, generated) ==
    LET assembled == \A i \in 1..Len(context_docs) : context_docs[i].has_content
    IN  [ text |-> IF assembled /\ generated THEN "generated" ELSE Apology,
          context |-> IF assembled THEN ContextParts(context_docs) ELSE <<>>,
          failed |-> IF ~assembled THEN { "assembly" } ELSE IF ~generated THEN { "provider" } ELSE {},
          raised |-> FALSE ]

\* generate_answer_with_context; context_docs None and [] both run the search
GenerateAnswerWithContext(question, context_docs, user_context, fail, generated) ==
    LET searched == context_docs = <<>>
        config == EffectiveConfig(NoConfig)
        sel == SelectCollections(collections, chroma, <<>>)
        st == GetEmbedding(LoopStart(<<>>, {}, ""), question, <<>>, FALSE, fail.kind = "embed", fail.err)
        failed == fail.kind # "none"
    IN  IF searched
        THEN /\ collections' = sel.m
             /\ chroma' = sel.ch
             /\ provider_calls' = st.calls
             /\ \E all_results \in IF failed THEN { <<>> }
                                   ELSE FetchAll(sel.selected, sel.ch, 1, st.vec, AnswerResults, NoFilter) :
                   LET results == IF failed THEN <<>>
                                  ELSE Rank(question, all_results, AnswerResults, config, user_context)
                       out == AnswerOutcome([ i \in 1..Len(results) |-> AsContextDoc(results[i]) ], generated)
                   IN  last' = [ NoCall EXCEPT !.op = "answer", !.query = question, !.n_results = AnswerResults,
                                               !.sent = st.sent, !.results = results,
                                               !.error = IF failed THEN fail.err ELSE "none",
                                               !.raised = out.raised,
                                               !.answer = [ text |-> out.text, context |-> out.context, searched |-> TRUE,
                                                            failed |-> out.failed \cup IF failed THEN { "retrieval" } ELSE {} ] ]
             /\ UNCHANGED << embedding_cache, cache_file, marker, clock >>
        ELSE LET out == AnswerOutcome(context_docs, generated)
             IN  /\ last' = [ NoCall EXCEPT !.op = "answer", !.query = question,
                                            !.raised = out.raised,
                                            !.answer = [ text |-> out.text, context |-> out.context, searched |-> FALSE,
                                                         failed |-> out.failed ] ]
                 /\ UNCHANGED << collections, chroma, embedding_cache, cache_file, marker, provider_calls, clock >>

\* ------------------------------------------- add_documents, await by await
\* Concurrent add_documents calls as tasks of the event loop.  A task runs
\* until it awaits the provider (TaskCall) and is resumed with the vector
\* (TaskResume); the other tasks run in between.  last.tasks holds what each
\* task has in its local variables.
Tasks == { 1, 2 }

SetTask(tasks, t, task) == [ x \in DOMAIN tasks \cup { t } |-> IF x = t THEN task ELSE tasks[x] ]

\* add_documents up to its loop: the collection is looked up, or created and
\* bound
TaskStart(t, documents, collection_name, batch_size) ==
    LET known == collection_name \in Keys(collections)
        ch1 == IF known THEN chroma ELSE GetOrCreateCollection(chroma, collection_name)
        m1 == IF known THEN collections ELSE Bind(collections, collection_name, collection_name)
        task == [ name |-> collection_name, handle |-> Handle(m1, collection_name),
                  docs_in |-> documents, docs |-> documents, batch_size |-> batch_size,
                  i |-> 1, ids |-> <<>>, new |-> <<>>, all_ids |-> <<>>, written |-> <<>>,
                  waiting |-> FALSE, doc_id |-> <<>>, metadata |-> NoMeta,
                  status |-> IF documents = <<>> THEN "ok" ELSE "run", ret |-> documents = <<>> ]
    IN  /\ t \notin DOMAIN last.tasks
        /\ collections' = m1
        /\ chroma' = ch1
        /\ last' = [ last EXCEPT !.op = "tasks", !.tasks = SetTask(last.tasks, t, task) ]
        /\ UNCHANGED << embedding_cache, cache_file, marker, provider_calls, clock >>

\* the rest of a loop turn once the vector of document i is there: the record
\* joins the batch, and the batch is written when it is full or the last
TaskAfterEmbedding(task, vec, recs) ==
    LET n == Len(task.docs)
        rec == [ id |-> task.doc_id, content |-> task.docs[task.i].content, metadata |-> task.metadata,
                 embedding |-> vec, under |-> { task.name } ]
        new == Append(task.new, rec)
        last_of_batch == task.i % task.batch_size = 0 \/ task.i = n
        batch_no == ((task.i - 1) \div task.batch_size) + 1
    IN  [ task |-> [ task EXCEPT !.new = new, !.waiting = FALSE, !.i = task.i + 1,
                                 !.written = IF last_of_batch THEN Append(task.written, batch_no) ELSE task.written,
                                 !.status = IF task.i = n THEN "ok" ELSE "run",
                                 !.ret = task.i = n ],
          recs |-> IF last_of_batch THEN CollectionAdd(recs, new) ELSE recs ]

\* a loop turn up to the await: the id, the stamp, the look into the cache;
\* on a hit the turn goes on with the cached vector, on a miss the provider
\* is called and the task waits
TaskCall(t) ==
    /\ t \in DOMAIN last.tasks
    /\ LET task == last.tasks[t]
       IN  /\ task.status = "run" /\ ~task.waiting
           /\ LET doc == task.docs[task.i]
                  first == (task.i - 1) % task.batch_size = 0
                  ids0 == IF first THEN <<>> ELSE task.ids
                  new0 == IF first THEN <<>> ELSE task.new
                  doc_id == UniqueId(GenerateDocumentId(doc.content \o MetaStr(MetaOf(doc))), 0, ids0)
                  metadata == [ MetaOf(doc) EXCEPT !.added_at = clock + 1 ]
                  stamped == IF doc.has_meta THEN [ doc EXCEPT !.metadata = metadata ] ELSE doc
                  task1 == [ task EXCEPT !.ids = Append(ids0, doc_id), !.new = new0,
                                         !.all_ids = Append(task.all_ids, doc_id),
                                         !.docs = [ task.docs EXCEPT ![task.i] = stamped ],
                                         !.doc_id = doc_id, !.metadata = metadata ]
                  hit == doc_id \in DOMAIN embedding_cache
                  after == TaskAfterEmbedding(task1, embedding_cache[doc_id], chroma[task.handle])
              IN  /\ clock' = clock + 1
                  /\ IF hit
                     THEN /\ last' = [ last EXCEPT !.tasks = SetTask(last.tasks, t, after.task) ]
                          /\ chroma' = [ chroma EXCEPT ![task.handle] = after.recs ]
                          /\ UNCHANGED provider_calls
                     ELSE /\ last' = [ last EXCEPT !.tasks = SetTask(last.tasks, t, [ task1 EXCEPT !.waiting = TRUE ]) ]
                          /\ provider_calls' = Bump(provider_calls, doc.content)
                          /\ UNCHANGED chroma
    /\ UNCHANGED << collections, embedding_cache, cache_file, marker >>

\* the provider has answered: the vector is cached and the turn goes on
TaskResume(t) ==
    /\ t \in DOMAIN last.tasks
    /\ LET task == last.tasks[t]
           vec == Embed(task.docs[task.i].content)
           cache2 == CachePut(embedding_cache, task.doc_id, vec)
           after == TaskAfterEmbedding(task, vec, chroma[task.handle])
       IN  /\ task.status = "run" /\ task.waiting
           /\ embedding_cache' = cache2
           /\ cache_file' = IF Cardinality(DOMAIN cache2) % SaveEvery = 0 THEN cache2 ELSE cache_file
           /\ last' = [ last EXCEPT !.tasks = SetTask(last.tasks, t, after.task) ]
           /\ chroma' = [ chroma EXCEPT ![task.handle] = after.recs ]
    /\ UNCHANGED << collections, marker, provider_calls, clock >>

\* ------------------------------------------------- search, stage by stage
\* The same call in the steps its code takes; last is the call in progress
\* and last.stage the stage it runs next.  Every other call waits for
\* last.stage = "done": search does not suspend between its stages.
StageOrder == << "fetch", "keyword", "personalize", "sort", "mmr", "truncate", "done" >>

\* search up to its fetch loop: the config, the selection, the query vector
SearchStart(query, collection_names, n_results, filter_metadata, search_config, user_context) ==
    LET sel == SelectCollections(collections, chroma, collection_names)
        st == GetEmbedding(LoopStart(<<>>, {}, ""), query, <<>>, FALSE, FALSE, "none")
    IN  /\ last.stage = "done"
        /\ collections' = sel.m
        /\ chroma' = sel.ch
        /\ provider_calls' = st.calls
        /\ last' = [ NoCall EXCEPT !.op = "search", !.names = collection_names, !.query = query,
                                   !.n_results = n_results, !.sent = st.sent,
                                   !.unknown = Range(collection_names) \ Keys(collections),
                                   !.created = DOMAIN sel.ch \ DOMAIN chroma,
                                   !.stage = IF sel.selected = <<>> THEN "keyword" ELSE "fetch",
                                   !.pending = sel.selected, !.qvec = st.vec,
                                   !.filter = filter_metadata,
                                   !.config = EffectiveConfig(search_config),
                                   !.search_config = search_config,
                                   !.user_context = user_context ]
        /\ UNCHANGED << embedding_cache, cache_file, marker, clock >>

\* one turn of the fetch loop: the query of the next selected collection and
\* the result dicts, score included, appended for what it returned
FetchNext ==
    /\ last.stage = "fetch"
    /\ \E h \in QueryResults(chroma[last.pending[1].handle], last.qvec, last.n_results * FetchFactor, last.filter) :
          LET got == [ j \in 1..Len(h) |-> Candidate(h[j], last.qvec, last.pending[1].key) ]
              rest == Tail(last.pending)
          IN  last' = [ last EXCEPT !.pending = rest,
                                    !.results = last.results \o got,
                                    !.fetched = last.fetched \o got,
                                    !.stage = IF rest = <<>> THEN "keyword" ELSE "fetch" ]
    /\ UNCHANGED << collections, chroma, embedding_cache, cache_file, marker, provider_calls, clock >>

\* a stage that replaces all_results by results and hands over to next;
\* applied is whether its condition held and its function was called
Refine(stage, next, applied, results) ==
    /\ last.stage = stage
    /\ last' = [ last EXCEPT !.results = results, !.stage = next,
                             !.ran = IF applied THEN last.ran \cup { stage } ELSE last.ran ]
    /\ UNCHANGED << collections, chroma, embedding_cache, cache_file, marker, provider_calls, clock >>

KeywordStage ==
    LET applied == ConfigGet(last.config, "keyword_weight", 0) > 0
    IN  Refine("keyword", "personalize", applied,
               IF applied THEN ApplyKeywordScoring(last.query, last.results, last.config) ELSE last.results)

PersonalizeStage ==
    Refine("personalize", "sort", last.user_context.given,
           IF last.user_context.given THEN ApplyPersonalization(last.results, last.user_context)
           ELSE last.results)

SortStage == Refine("sort", "mmr", TRUE, SortByScore(last.results))

MmrStage ==
    LET applied == ConfigGet(last.config, "use_mmr", FALSE)
    IN  Refine("mmr", "truncate", applied,
               IF applied THEN ApplyMmr(last.results, last.n_results, ConfigGet(last.config, "mmr_lambda", 7))
               ELSE last.results)

\* a return of all_results without the slice
TruncateSkipped == Refine("truncate", "done", TRUE, last.results)

\* return all_results[:n_results]
TruncateStage == Refine("truncate", "done", TRUE, Truncate(last.results, last.n_results))

\* clear_collection; fails says that the store raises when the ids are read
ClearCollection(collection_name, fails) ==
    LET ch1 == GetOrCreateCollection(chroma, collection_name)
    IN  /\ chroma' = IF fails THEN ch1 ELSE [ ch1 EXCEPT ![collection_name] = {} ]
        /\ last' = [ NoCall EXCEPT !.op = "clear", !.name = collection_name,
                                   !.error = IF fails THEN "other" ELSE "none",
                                   !.created = DOMAIN ch1 \ DOMAIN chroma,
                                   !.ret = ~fails ]
        /\ UNCHANGED << collections, embedding_cache, cache_file, marker, provider_calls, clock >>

\* the document load_curriculum_data builds from a topic (of the four text
\* fields of a topic the title stands for all: each adds a labelled part)
CurriculumDocument(topic) ==
    [ content |-> IF topic.title # <<>> THEN TitlePart(topic.title) ELSE <<>>,
      has_meta |-> TRUE,
      metadata |-> [ subject |-> topic.subject, exam_type |-> <<"Y">>, added_at |-> 0 ] ]

\* the documents list of load_curriculum_data: the topics with content
CurriculumDocuments(flat_topics) ==
    LET all == [ i \in 1..Len(flat_topics) |-> CurriculumDocument(flat_topics[i]) ]
        Meaningful(doc) == StripNonEmpty(doc.content)
    IN  SelectSeq(all, Meaningful)

\* the store after clear_collection(collection_name) succeeded
Cleared(ch, collection_name) ==
    [ GetOrCreateCollection(ch, collection_name) EXCEPT ![collection_name] = {} ]

LoadCall(force_reload, ret) ==
    [ NoCall EXCEPT !.op = "load", !.name = "curriculum", !.force = force_reload, !.ret = ret ]

\* a load that never finds the curriculum loaded
NeverLoaded(m, ch, force_reload) == FALSE

\* the check load_curriculum_data starts with: not forced, and the curriculum
\* collection holds a record
AlreadyLoaded(m, ch, force_reload) ==
    /\ ~force_reload
    /\ "curriculum" \in Keys(m)
    /\ Cardinality(ch[Handle(m, "curriculum")]) > 0

\* load_curriculum_data; loader_ok is what load_all_curriculum returns and
\* flat_topics what the loader then holds
LoadCurriculumData(flat_topics, force_reload, loader_ok, fail, now) ==
    LET documents == CurriculumDocuments(flat_topics)
        loaded == AlreadyLoaded(collections, chroma, force_reload)
        ch1 == IF force_reload THEN Cleared(chroma, "curriculum") ELSE chroma
        out == AddOutcome(collections, ch1, documents, "curriculum", DefaultBatchSize, fail, now)
    IN  /\ TotalRecords(chroma) + Len(documents) <= MaxRecords
        /\ IF loaded \/ ~loader_ok \/ documents = <<>>
           THEN /\ last' = LoadCall(force_reload, loaded)
                /\ UNCHANGED << collections, chroma, embedding_cache, cache_file, marker, provider_calls, clock >>
           ELSE /\ collections' = out.m
                /\ chroma' = out.ch
                /\ embedding_cache' = out.st.cache
                /\ cache_file' = SaveEmbeddingCache(out.st.cache, FALSE)
                /\ marker' = TRUE
                /\ provider_calls' = out.st.calls
                /\ clock' = now
                /\ last' = [ AddCall(out, documents, "curriculum", DefaultBatchSize)
                               EXCEPT !.op = "load", !.force = force_reload ]

\* load_curriculum_data until the process is ended inside the
\* _save_embedding_cache of line 802, and the next start of the process
KilledInFlush(flat_topics, force_reload, now) ==
    LET documents == CurriculumDocuments(flat_topics)
        ch1 == IF force_reload THEN Cleared(chroma, "curriculum") ELSE chroma
        out == AddOutcome(collections, ch1, documents, "curriculum", DefaultBatchSize, NoFail, now)
        file == SaveEmbeddingCache(out.st.cache, TRUE)
    IN  /\ TotalRecords(chroma) + Len(documents) <= MaxRecords
        /\ ~AlreadyLoaded(collections, chroma, force_reload)
        /\ documents # <<>>
        /\ cache_file' = file
        /\ collections' = Constructed(marker)
        /\ chroma' = CreateAll(out.ch, CachedNames, 1)
        /\ embedding_cache' = LoadEmbeddingCache(file)
        /\ marker' \in IF marker THEN { TRUE } ELSE BOOLEAN
        /\ provider_calls' = out.st.calls
        /\ clock' = now
        /\ last' = [ NoCall EXCEPT !.op = "killed" ]

\* a graceful shutdown, shutdown_event is all that runs, and the next start
\* of the process
Shutdown ==
    /\ collections' = Constructed(marker)
    /\ chroma' = CreateAll(chroma, CachedNames, 1)
    /\ embedding_cache' = LoadEmbeddingCache(cache_file)
    /\ marker' \in IF marker THEN { TRUE } ELSE BOOLEAN
    /\ last' = [ NoCall EXCEPT !.op = "shutdown" ]
    /\ UNCHANGED << cache_file, provider_calls, clock >>

\* a call of _get_embedding(text, cache_key) by itself
InsertEmbedding(text, cache_key) ==
    LET st == GetEmbedding(LoopStart(<<>>, {}, ""), text, cache_key, TRUE, FALSE, "none")
    IN  /\ embedding_cache' = st.cache
        /\ cache_file' = st.file
        /\ provider_calls' = st.calls
        /\ last' = [ NoCall EXCEPT !.op = "embed", !.sent = st.sent ]
        /\ UNCHANGED << collections, chroma, marker, clock >>

\* ------------------------------------------------- related curriculum content
\* grade.isdigit()
IsDigit(grade) == grade.kind \in { "digits", "super" }

\* int(grade) raises ValueError
IntRaises(grade) == grade.kind = "super"

\* the sequences that hold every element of S once: the orders in which a
\* set is iterated
Orders(S) ==
    { o \in SeqsUpTo(S, Cardinality(S)) : Len(o) = Cardinality(S) /\ Range(o) = S }

\* one turn of the loops over set(subjects) and set(grades): the search it
\* issues, none when the turn is left by continue
RelatedBranch(subject, grade, relation_type) ==
    IF relation_type = "similar"
    THEN << [ subject |-> subject, grade |-> grade, n_results |-> 5,
              query |-> RelatedQuery(subject, grade, relation_type) ] >>
    ELSE LET by == IF relation_type = "prerequisite" THEN 0 - 1 ELSE 1
             target == IF IsDigit(grade) THEN Digits(grade.n + by) ELSE grade
         IN  IF IsDigit(grade) /\ IntRaises(grade) THEN <<>>
             ELSE << [ subject |-> subject, grade |-> target, n_results |-> 3,
                       query |-> RelatedQuery(subject, target, relation_type) ] >>

\* the searches of the nested loops, subjects and grades in the given orders
RECURSIVE RelatedSearches(_, _, _, _)
RelatedSearches(subject_order, grade_order, relation_type, k) ==
    IF k > Len(subject_order) * Len(grade_order) THEN <<>>
    ELSE LET subject == subject_order[((k - 1) \div Len(grade_order)) + 1]
             grade == grade_order[((k - 1) % Len(grade_order)) + 1]
         IN  RelatedBranch(subject, grade, relation_type)
             \o RelatedSearches(subject_order, grade_order, relation_type, k + 1)

\* what the search of the curriculum collection returns under the filter
\* {"subject": subject, "grade": grade}: the records of the index that match,
\* n_results at most; the index holds one record at most per subject and grade
Found(index, search) ==
    IF [ subject |-> search.subject, grade |-> search.grade ] \in index
    THEN << [ id |-> search.query, subject |-> search.subject, grade |-> search.grade ] >>
    ELSE <<>>

RECURSIVE RelatedResults(_, _, _)
RelatedResults(index, searches, k) ==
    IF k > Len(searches) THEN <<>>
    ELSE Found(index, searches[k]) \o RelatedResults(index, searches, k + 1)

\* the loop over related_results: the first result of every id, and the loop
\* is left with 15 results
RECURSIVE UniqueResults(_, _, _)
UniqueResults(related_results, k, unique) ==
    IF k > Len(related_results) \/ Len(unique) >= 15 THEN unique
    ELSE UniqueResults(related_results, k + 1,
                       IF \E j \in 1..Len(unique) : unique[j].id = related_results[k].id
                       THEN unique ELSE Append(unique, related_results[k]))

RECURSIVE BumpAll(_, _, _)
BumpAll(calls, searches, k) ==
    IF k > Len(searches) THEN calls
    ELSE BumpAll(Bump(calls, searches[k].query), searches, k + 1)

\* get_related_curriculum_content; index is what the curriculum collection
\* holds, by subject and grade
GetRelatedCurriculumContent(selected_topics, relation_type, index) ==
    LET subjects == { selected_topics[i].ders : i \in 1..Len(selected_topics) }
        grades == { selected_topics[i].sinif : i \in 1..Len(selected_topics) }
        sel == SelectCollections(collections, chroma, << "curriculum" >>)
    IN  \E subject_order \in Orders(subjects), grade_order \in Orders(grades) :
            LET searches == RelatedSearches(subject_order, grade_order, relation_type, 1)
                related_results == RelatedResults(index, searches, 1)
            IN  /\ collections' = IF searches = <<>> THEN collections ELSE sel.m
                /\ chroma' = IF searches = <<>> THEN chroma ELSE sel.ch
                /\ provider_calls' = BumpAll(provider_calls, searches, 1)
                /\ last' = [ NoCall EXCEPT !.op = "related", !.relation = relation_type,
                                           !.topics = selected_topics, !.searches = searches,
                                           !.related = UniqueResults(related_results, 1, <<>>) ]
                /\ UNCHANGED << embedding_cache, cache_file, marker, clock >>

\* ---------------------------------------------------- curriculum coverage
\* round(selected_count / total_available * 100, 2) in hundredths: the
\* nearest hundredth, the even one of two that are equally near
CoveragePercentage(selected_count, total_available) ==
    IF total_available > 0
    THEN LET q == (selected_count * 10000) \div total_available
             r == (selected_count * 10000) % total_available
         IN  IF 2 * r > total_available \/ (2 * r = total_available /\ q % 2 = 1) THEN q + 1 ELSE q
    ELSE 0

\* "High" if coverage_percentage > 70 else "Medium" if coverage_percentage >
\* 40 else "Low", on the percentage before it is rounded
CoverageStatus(selected_count, total_available) ==
    IF total_available > 0 /\ selected_count * 100 > 70 * total_available THEN "High"
    ELSE IF total_available > 0 /\ selected_count * 100 > 40 * total_available THEN "Medium"
    ELSE "Low"

\* the keys of the dict subjects in the order they were inserted
RECURSIVE SubjectOrder(_, _, _)
SubjectOrder(selected_topics, k, order) ==
    IF k > Len(selected_topics) THEN order
    ELSE SubjectOrder(selected_topics, k + 1,
                      IF selected_topics[k].ders \in Range(order) THEN order
                      ELSE Append(order, selected_topics[k].ders))

\* coverage_analysis[subject]; total_available is len(all_available)
SubjectAnalysis(selected_topics, subject, total_available) ==
    LET mine == { i \in 1..Len(selected_topics) : selected_topics[i].ders = subject }
        selected_count == Cardinality(mine)
    IN  [ total_available_topics |-> total_available,
          selected_topics_count |-> selected_count,
          coverage_percentage |-> CoveragePercentage(selected_count, total_available),
          grades_covered |-> { selected_topics[i].sinif : i \in mine },
          coverage_status |-> CoverageStatus(selected_count, total_available) ]

\* the recommendations of the subjects from the k-th on
RECURSIVE Recommendations(_, _, _)
Recommendations(order, analysis, k) ==
    IF k > Len(order) THEN <<>>
    ELSE LET a == analysis[order[k]]
         IN  (IF a.coverage_percentage < 5000 THEN << [ kind |-> "more_topics", subject |-> order[k] ] >> ELSE <<>>)
             \o (IF Cardinality(a.grades_covered) < 2 THEN << [ kind |-> "other_grades", subject |-> order[k] ] >> ELSE <<>>)
             \o Recommendations(order, analysis, k + 1)

RECURSIVE BumpEach(_, _, _)
BumpEach(calls, order, k) ==
    IF k > Len(order) THEN calls
    ELSE BumpEach(Bump(calls, CoverageQuery(order[k])), order, k + 1)

\* analyze_curriculum_coverage; available[subject] is the number of results
\* of the search for the subject's topics
AnalyzeCurriculumCoverage(selected_topics, available) ==
    LET order == SubjectOrder(selected_topics, 1, <<>>)
        sel == SelectCollections(collections, chroma, << "curriculum" >>)
        analysis == [ subject \in Range(order) |-> SubjectAnalysis(selected_topics, subject, available[subject]) ]
    IN  /\ collections' = IF order = <<>> THEN collections ELSE sel.m
        /\ chroma' = IF order = <<>> THEN chroma ELSE sel.ch
        /\ provider_calls' = BumpEach(provider_calls, order, 1)
        /\ last' = [ NoCall EXCEPT !.op = "coverage", !.topics = selected_topics,
                                   !.analysis = analysis,
                                   !.recommendations = Recommendations(order, analysis, 1) ]
        /\ UNCHANGED << embedding_cache, cache_file, marker, clock >>

\* -------------------------------------------------- scoring of candidates
\* the cosine distance of the store is 1 - cosine similarity: 0 up to 2
MaxDistance == 2 * DistanceUnits

\* the result dict search builds for a record the store returned at the
\* given distance
Scored(id, content, metadata, distance) ==
    [ id |-> id, content |-> content, metadata |-> metadata,
      distance |-> distance, collection |-> "documents",
      score |-> (DistanceUnits - distance) * (ScoreScale \div DistanceUnits),
      embedding |-> NoEmbedding ]

\* the stages of search after the fetch, applied to the fetched list
\* all_results: what the keyword stage leaves, what the personalization
\* leaves, what is returned, and what is returned without user_context
ScoreCandidates(query, all_results, n_results, search_config, user_context) ==
    LET config == EffectiveConfig(search_config)
        blended == IF ConfigGet(config, "keyword_weight", 0) > 0
                   THEN ApplyKeywordScoring(query, all_results, config) ELSE all_results
        boosted == IF user_context.given THEN ApplyPersonalization(blended, user_context) ELSE blended
    IN  /\ last' = [ NoCall EXCEPT !.op = "score", !.query = query, !.n_results = n_results,
                                   !.config = config, !.user_context = user_context,
                                   !.fetched = all_results, !.blended = blended, !.boosted = boosted,
                                   !.results = Rank(query, all_results, n_results, config, user_context),
                                   !.plain = Rank(query, all_results, n_results, config, NoContext) ]
        /\ UNCHANGED << collections, chroma, embedding_cache, cache_file, marker, provider_calls, clock >>

\* ------------------------------------------------------------ specification
NResults == { 1, 2 }

\* the calls a client makes, with the arguments drawn from the given sets
AddOver(doc_lists, names, batch_sizes, failures) ==
    \E documents \in doc_lists, collection_name \in names, batch_size \in batch_sizes,
       fail \in failures :
        /\ fail.at <= Len(documents)
        /\ TotalRecords(chroma) + Len(documents) <= MaxRecords
        /\ AddDocuments(documents, collection_name, batch_size, fail, Now)

FindOver(queries, name_lists, failures) ==
    \E query \in queries, collection_names \in name_lists, n_results \in NResults, fail \in failures :
        Search(query, collection_names, n_results, NoFilter, NoConfig, NoContext, fail)

ClearOver(names, outcomes) ==
    \E collection_name \in names, fails \in outcomes : ClearCollection(collection_name, fails)

LoadOver(topic_lists) ==
    \E flat_topics \in topic_lists, force_reload \in BOOLEAN, loader_ok \in BOOLEAN,
       fail \in AddFailures(MaxTopics) :
        /\ fail.at <= Len(flat_topics)
        /\ LoadCurriculumData(flat_topics, force_reload, loader_ok, fail, Now)

\* ingestion into one collection and retrieval from it
\* lists of documents without metadata, and lists of one document with metadata
\* given once or twice
DocLists == SeqsUpTo(PlainDocs, MaxDocs) \cup { s \in SeqsUpTo(TaggedDocs, MaxDocs) : s # <<>> }

Ingest == AddOver(DocLists, { "documents" }, BatchSizes, AddFailures(MaxDocs))

Retrieve == FindOver(Queries, { <<>>, << "documents" >> }, SearchFailures)

NextIngest == Ingest \/ Retrieve

SpecIngest == Init /\ [][NextIngest]_vars

\* the curriculum collection and its (re)loads
Load == LoadOver(SeqsUpTo(Topics, MaxTopics))

Browse == FindOver({ <<"a">> }, { << "curriculum" >> }, { NoFail })

NextLoad == Load \/ Browse

SpecLoad == Init /\ [][NextLoad]_vars

\* the collections dict and the store behind it, over the names callers use
Store == AddOver({ << d >> : d \in { x \in PlainDocs : x.content = <<"a">> } }, InputNames, { 1 }, { NoFail })

Find == FindOver({ <<"a">> }, { << n >> : n \in InputNames }, { NoFail })

Clear == ClearOver(InputNames, { FALSE })

NextNames == Store \/ Find \/ Clear \/ Restart

SpecNames == Init /\ [][NextNames]_vars

\* ingestion in batches, with the failures a batch can meet
BatchLists == SeqsUpTo({ d \in Docs : d.content # <<>> }, MaxDocs)

Batch == AddOver(BatchLists, { "documents" }, BatchSizes, AddFailures(MaxDocs))

NextBatch == Batch

SpecBatch == Init /\ [][NextBatch]_vars

\* the embedding cache and its file over the ends of the process
OneTopic == { << topic >> : topic \in Topics }

Fill == AddOver({ << d >> : d \in { x \in Docs : x.content # <<>> } }, { "documents" }, { 1 }, { NoFail })

Reload ==
    \E flat_topics \in OneTopic, force_reload \in BOOLEAN :
        LoadCurriculumData(flat_topics, force_reload, TRUE, NoFail, Now)

Killed == \E flat_topics \in OneTopic, force_reload \in BOOLEAN : KilledInFlush(flat_topics, force_reload, Now)

NextCache == Fill \/ Reload \/ Killed \/ Shutdown \/ Restart

SpecCache == Init /\ [][NextCache]_vars

\* answers over what was added to "documents"
Answer ==
    \E question \in Queries, context_docs \in { <<>>, << GoodDoc >>, << GoodDoc, BadDoc >> },
       fail \in SearchFailures, generated \in BOOLEAN :
        /\ context_docs # <<>> => fail = NoFail
        /\ GenerateAnswerWithContext(question, context_docs, NoContext, fail, generated)

NextAnswer == Fill \/ Answer

SpecAnswer == Init /\ [][NextAnswer]_vars

\* add_documents, and again with the record objects of the call before
First == AddOver(DocLists, { "documents" }, BatchSizes, { NoFail })

Again ==
    /\ last.op = "add"
    /\ TotalRecords(chroma) + Len(last.docs_out) <= MaxRecords
    /\ AddDocuments(last.docs_out, last.name, last.batch_size, NoFail, Now)

NextAgain == First \/ Again

SpecAgain == Init /\ [][NextAgain]_vars

\* starts of the process, with and without the marker file, and searches
\* over all collections
Everywhere == FindOver({ <<"a">> }, { <<>> }, { NoFail })

NextStart == Fill \/ Everywhere \/ Restart

SpecStart == Init /\ [][NextStart]_vars

\* the cache filled key by key, curriculum loads and restarts
\* the callers ask for a key of the cache again or for the next fresh key
Insert ==
    \E i \in 1..MaxKeys :
        /\ \A j \in 1..(i - 1) : << "k", ToString(j) >> \in DOMAIN embedding_cache
        /\ InsertEmbedding(<<"a">>, << "k", ToString(i) >>)

NextFlush == Insert \/ Reload \/ Restart

SpecFlush == Init /\ [][NextFlush]_vars

\* one call for related content, for the selections of up to MaxTopics topics
SelectedTopics == { [ ders |-> s, sinif |-> g ] : s \in CourseNames, g \in GradeValues }

CurriculumIndex == { [ subject |-> s, grade |-> g ] : s \in CourseNames, g \in ShiftedGrades }

Related ==
    /\ last.op = "init"
    /\ \E selected_topics \in SeqsUpTo(SelectedTopics, MaxTopics), relation_type \in RelationTypes,
          index \in { CurriculumIndex, {} } :
           GetRelatedCurriculumContent(selected_topics, relation_type, index)

NextRelated == Related

SpecRelated == Init /\ [][NextRelated]_vars

\* one coverage analysis: n topics of a subject and grade in a row
Row(subject, grade, n) == [ i \in 1..n |-> [ ders |-> subject, sinif |-> grade ] ]

Coverage ==
    /\ last.op = "init"
    /\ \E n9 \in 0..MaxSelected, n10 \in 0..MaxSelected, nf \in 0..1,
          total_m \in 0..MaxAvailable, total_f \in 0..1 :
           AnalyzeCurriculumCoverage(Row(<<"f">>, Digits(9), nf) \o Row(<<"m">>, Digits(9), n9)
                                     \o Row(<<"m">>, Digits(10), n10),
                                     [ s \in CourseNames |-> IF s = <<"m">> THEN total_m ELSE total_f ])

NextCoverage == Coverage

SpecCoverage == Init /\ [][NextCoverage]_vars

\* two add_documents calls at a time
Begin ==
    \E t \in Tasks, documents \in BatchLists, collection_name \in { "documents", "notes" },
       batch_size \in BatchSizes :
        TaskStart(t, documents, collection_name, batch_size)

Call == \E t \in Tasks : TaskCall(t)

Resume == \E t \in Tasks : TaskResume(t)

NextTasks == Begin \/ Call \/ Resume

SpecTasks == Init /\ [][NextTasks]_vars

\* keyword_weight, and nothing else, as search_config
KeywordOnly == [ keys |-> { "keyword_weight" }, semantic_weight |-> 0, keyword_weight |-> 3,
                 use_mmr |-> FALSE, mmr_lambda |-> 0 ]

\* ranking: documents of the ranking universe in "documents", and searches
\* taken stage by stage
\* use_mmr with lambda 0.5, and nothing else, as search_config
MmrHalf == [ keys |-> { "use_mmr", "mmr_lambda" }, semantic_weight |-> 0, keyword_weight |-> 0,
             use_mmr |-> TRUE, mmr_lambda |-> 5 ]

\* use_mmr switched off, and nothing else, as search_config
MmrOff == [ keys |-> { "use_mmr" }, semantic_weight |-> 0, keyword_weight |-> 0,
            use_mmr |-> FALSE, mmr_lambda |-> 0 ]

UserContexts ==
    { NoContext,
      [ given |-> TRUE, weak_subjects |-> << <<"m">> >>, exam_target |-> <<>> ],
      [ given |-> TRUE, weak_subjects |-> << <<"M">> >>, exam_target |-> <<"Y">> ],
      [ given |-> TRUE, weak_subjects |-> << <<"m">>, <<"M">> >>, exam_target |-> <<"Y">> ] }

Seed ==
    \E doc \in RankDocs :
        /\ last.stage = "done"
        /\ TotalRecords(chroma) < MaxCandidates
        /\ AddDocuments(<< doc >>, "documents", 1, NoFail, Now)

Ask ==
    \E collection_names \in { <<>>, << "documents" >> }, n_results \in NResults,
       search_config \in { NoConfig, MmrHalf, MmrOff, KeywordOnly }, user_context \in UserContexts :
        SearchStart(RankQuery, collection_names, n_results, NoFilter, search_config, user_context)

NextRank ==
    Seed \/ Ask \/ FetchNext \/ KeywordStage \/ PersonalizeStage \/ SortStage \/ MmrStage \/ TruncateStage

SpecRank == Init /\ [][NextRank]_vars

\* scoring, once from the initial state, of a fetched list of two candidates:
\* the first of any content, metadata and distance, the second without
\* metadata
ScoreDistances == { d \in 0..MaxDistance : d % 2 = 0 }

ScoreContents == { NearText, FarText, << "c" >> }

ScoreMetas ==
    { NoMeta,
      [ subject |-> <<"m">>, exam_type |-> <<>>, added_at |-> 0 ],
      [ subject |-> <<"m">>, exam_type |-> <<"Y">>, added_at |-> 0 ] }

Score ==
    /\ last.op = "init"
    /\ \E query \in { RankQuery, <<>> }, content \in ScoreContents, metadata \in ScoreMetas,
          d1 \in ScoreDistances, d2 \in ScoreDistances,
          search_config \in { NoConfig, MmrOff, KeywordOnly }, user_context \in UserContexts :
        /\ d1 <= d2
        /\ ScoreCandidates(query, << Scored(<<"1">>, content, metadata, d1), Scored(<<"2">>, NearText, NoMeta, d2) >>,
                           2, search_config, user_context)

NextScore == Score

SpecScore == Init /\ [][NextScore]_vars

\* ------------------------------------------------------------------ claims
\* the store of the collection that add_documents(collection_name = name)
\* writes and search(collection_names = [name]) reads
TargetOf(name) == IF name \in Keys(collections) THEN Handle(collections, name) ELSE name

RecordsOf(name) == IF TargetOf(name) \in DOMAIN chroma THEN chroma[TargetOf(name)] ELSE {}

\* the stored records of a collection that hold the (content, metadata) of doc
StoredFor(name, doc) ==
    { r \in RecordsOf(name) : r.content = doc.content /\ [ r.metadata EXCEPT !.added_at = 0 ] = MetaOf(doc) }

IsBlank(text) == ~StripNonEmpty(text)

\* C1: after add_documents has ingested its records without error, the
\* collection holds exactly one record for each (content, metadata) with
\* content that it was given, also when the list held the same record twice.
C1_IdempotentIngestion ==
    (last.op = "add" /\ last.error = "none") =>
        \A i \in 1..Len(last.docs_in) :
            ~IsBlank(last.docs_in[i].content) => Cardinality(StoredFor(last.name, last.docs_in[i])) = 1

\* C2: after load_curriculum_data(force_reload=True) has ingested k valid
\* topics without error, the curriculum collection holds exactly the k records
\* of that load and none of an earlier load.
C2_ForceReloadReplaces ==
    (last.op = "load" /\ last.force /\ last.ret /\ last.error = "none" /\ last.written # <<>>) =>
        StoredIds(RecordsOf("curriculum")) = Range(last.ids)

\* C3: after clear_collection(n) returned True the collection that
\* add_documents and search use under the name n holds no record.
C3_ClearEmpties ==
    (last.op = "clear" /\ last.ret) => RecordsOf(last.name) = {}

\* C4: add_documents, when neither the provider nor the store fails, returns
\* True, has stored every record with content and has neither stored nor sent
\* to the provider a record whose content is empty or whitespace.
C4_BlankSkipped ==
    (last.op = "add" /\ last.error = "none") =>
        /\ last.ret
        /\ \A i \in 1..Len(last.docs_in) :
              IF IsBlank(last.docs_in[i].content)
              THEN /\ StoredFor(last.name, last.docs_in[i]) = {}
                   /\ last.docs_in[i].content \notin Range(last.sent)
              ELSE StoredFor(last.name, last.docs_in[i]) # {}

\* the number of batches of an add_documents call
BatchCount(n, batch_size) == (n + batch_size - 1) \div batch_size

\* C5: when one batch of add_documents fails (not by shutdown), every other
\* batch of the call is still written (all records having content).
C5_LaterBatchesWritten ==
    (last.op = "add" /\ last.error \in { "other", "storage" }
        /\ \A i \in 1..Len(last.docs_in) : ~IsBlank(last.docs_in[i].content)) =>
        Len(last.written) >= BatchCount(Len(last.docs_in), last.batch_size) - 1

\* C6: every result of a search restricted to named collections is a record
\* that was stored under the name it is reported for, which is one of the
\* names asked for.
C6_Isolation ==
    (last.op = "search" /\ last.names # <<>>) =>
        \A i \in 1..Len(last.results) :
            /\ last.results[i].collection \in Range(last.names)
            /\ \E r \in RecordsOf(last.results[i].collection) :
                  r.id = last.results[i].id /\ last.results[i].collection \in r.under

\* C6, its first sentence alone: no result of search(["curriculum"]) is a
\* record that was added under the name "documents".
DocumentsNotInCurriculum ==
    (last.op = "search" /\ last.names = << "curriculum" >>) =>
        \A i \in 1..Len(last.results) :
            \A r \in RecordsOf("curriculum") : r.id = last.results[i].id => "documents" \notin r.under

\* C7: search with an empty query returns the empty list and does not raise.
C7_EmptyQueryEmptyResult ==
    (last.op = "search" /\ last.query = <<>>) => (last.results = <<>> /\ ~last.raised)

\* C7, its second sentence: search returns the empty list when the
\* collections it searched hold no record.
EmptyStoreEmptyResult ==
    (last.op = "search" /\ last.names # <<>>
        /\ \A i \in 1..Len(last.names) : RecordsOf(last.names[i]) = {})
        => (last.results = <<>> /\ ~last.raised)

\* C8 as stated: a search that names a collection unknown to the dict gets
\* no result from it, does not raise, and leaves the name bound to an empty
\* collection.
C8_UnknownNameEmpty ==
    last.op = "search" =>
        \A n \in last.unknown :
            /\ ~last.raised
            /\ \A i \in 1..Len(last.results) : last.results[i].collection # n
            /\ n \in Keys(collections)
            /\ RecordsOf(n) = {}

\* C8 as amended: a search that names a collection which neither the dict
\* nor the store knows gets no result from it, does not raise, and leaves the
\* name bound to an empty collection; and no call rebinds a key of the dict
\* (only a new process builds the dict anew).
C8_NewNameEmpty ==
    [][ /\ last'.op = "search" =>
              \A n \in last'.created \cap last'.unknown :
                  /\ ~last'.raised
                  /\ \A i \in 1..Len(last'.results) : last'.results[i].collection # n
                  /\ n \in Keys(collections')
                  /\ chroma'[Handle(collections', n)] = {}
        /\ last'.op # "restart" =>
              \A n \in Keys(collections) : n \in Keys(collections') /\ Handle(collections', n) = Handle(collections, n)
      ]_vars

\* a search has just created the collection "notes" and bound the name
C8_Witness ==
    /\ last.op = "search" /\ last.names = << "notes" >>
    /\ "notes" \in last.created \cap last.unknown
    /\ "notes" \in Keys(collections) /\ last.results = <<>>

\* C9: an error met inside search (the provider shutting down, or the store
\* failing on a read) is raised to the caller of search, which returns no
\* result list.
C9_SearchErrorsPropagate ==
    (last.op = "search" /\ last.error \in { "shutdown", "storage" }) => last.raised

\* C10: the provider is called at most once for each text.
C10_OneProviderCallPerText ==
    \A t \in Texts : provider_calls[t] <= 1

\* ------------------------------------------------------------- claims, ranking
Pos(stage) == CHOOSE i \in 1..Len(StageOrder) : StageOrder[i] = stage

\* the candidates of a list: which record of which collection
Cands(results) == { [id |-> results[i].id, collection |-> results[i].collection] : i \in 1..Len(results) }

\* one step of a search in progress: the next stage is the next of the fixed
\* order (the fetch loop takes one step per collection), the store is left
\* alone, no stage after the fetch adds a candidate, the stages before the
\* mmr selection keep every candidate, and what is returned is at most
\* n_results of the fetched candidates: the ranking of the fetched list
StepInOrder ==
    (last.op = "search" /\ last.stage # "done") =>
        /\ last'.op = "search" /\ chroma' = chroma
        /\ last.stage = "fetch" =>
              /\ last'.stage \in { "fetch", "keyword" }
              /\ last'.stage = "keyword" <=> last'.pending = <<>>
        /\ last.stage # "fetch" =>
              /\ Pos(last'.stage) = Pos(last.stage) + 1
              /\ last'.fetched = last.fetched
              /\ Cands(last'.results) \subseteq Cands(last.results)
        /\ last.stage \in { "keyword", "personalize", "sort" } => Len(last'.results) = Len(last.results)
        /\ last'.stage = "done" =>
              /\ Len(last'.results) <= last.n_results
              /\ Cands(last'.results) \subseteq Cands(last.fetched)
              /\ last'.results = Rank(last.query, last.fetched, last.n_results, last.config, last.user_context)

\* while the fetch loop has a collection left to query no candidate has got
\* its initial score
ScoredAfterFetch ==
    (last.op = "search" /\ last.stage = "fetch") => last.results = <<>>

\* C11 as stated: the stages of a search run in the fixed order fetch,
\* initial score, keyword blend, personalization, sort, MMR, truncation, each
\* after the previous one has processed every candidate; no stage after the
\* fetch reads the store; at most n_results fetched candidates are returned.
C11_StagesInOrder == [][ StepInOrder /\ ScoredAfterFetch' ]_vars

\* C11 as amended: the fetch loop gives each candidate its initial score as
\* it fetches it, collection by collection; from the keyword blend on the
\* stages run in the fixed order, each on the whole list the previous one
\* left; no stage after the fetch reads the store; at most n_results fetched
\* candidates are returned.
C11_StagesAfterFetchInOrder == [][ StepInOrder ]_vars

\* a search over all collections, with mmr and a user context, that fetched
\* more candidates than it returned
C11_Witness ==
    /\ last.op = "search" /\ last.stage = "done" /\ last.names = <<>>
    /\ Len(last.fetched) > last.n_results /\ Len(last.results) = last.n_results
    /\ ConfigGet(last.config, "use_mmr", FALSE) /\ last.user_context.given

\* the score the personalization stage owes a candidate: times 1.2 when
\* weak, times 1.1 when the exam type is the target
Owed(result, weak, user_context) ==
    LET s1 == IF weak THEN (result.score * 12) \div 10 ELSE result.score
    IN  IF user_context.exam_target # <<>> /\ result.metadata.exam_type = user_context.exam_target
        THEN (s1 * 11) \div 10 ELSE s1

\* C12: with a user context, a candidate whose subject is one of the weak
\* subjects leaves the personalization stage with 1.2 times its score (once),
\* times 1.1 more when its exam type is the target; a candidate whose subject
\* is none of them, whatever the case of the letters, gets no 1.2.
C12_PersonalizationBoost ==
    [][ (last.op = "search" /\ last.stage = "personalize" /\ last.user_context.given) =>
            \A i \in 1..Len(last.results) :
                LET before == last.results[i]
                    after == last'.results[i].score
                    ctx == last.user_context
                    subject == before.metadata.subject
                    same == subject \in Range(ctx.weak_subjects)
                    alike == \E w \in Range(ctx.weak_subjects) : Lower(w) = Lower(subject)
                IN  /\ same => after = Owed(before, TRUE, ctx)
                    /\ ~alike => after = Owed(before, FALSE, ctx)
                    /\ after \in { Owed(before, TRUE, ctx), Owed(before, FALSE, ctx) }
      ]_vars

\* C12, its example: of two returned candidates with the same content, one
\* with subject "m" and one without metadata, under weak_subjects = ["m"]
\* the first ends at 1.2 times the score of the second.
BoostExample ==
    (last.op = "search" /\ last.stage = "done"
        /\ last.user_context.given /\ last.user_context.weak_subjects = << <<"m">> >>) =>
        \A i, j \in 1..Len(last.results) :
            (/\ last.results[i].content = last.results[j].content
             /\ last.results[i].metadata.subject = <<"m">>
             /\ last.results[j].metadata.subject = <<>>)
            => last.results[i].score * 10 = last.results[j].score * 12

\* what mmr is to maximise for candidate c against the selected s, per the
\* formula lambda * relevance - (1 - lambda) * similarity, lambda in tenths
Ideal(c, s, lambda_param) ==
    lambda_param * c.score
    - (10 - lambda_param) * CosineSimilarity(Embed(c.content), Embed(s.content))

\* two near-duplicates and a third candidate of lower score that the formula
\* prefers to the second near-duplicate
Diverse(fetched) ==
    /\ Len(fetched) = 3
    /\ \E i, j, k \in 1..3 :
          /\ i # j /\ i # k /\ j # k
          /\ fetched[i].content = fetched[j].content
          /\ fetched[i].score = fetched[j].score
          /\ fetched[k].score < fetched[j].score
          /\ Ideal(fetched[k], fetched[i], 5) > Ideal(fetched[j], fetched[i], 5)

\* C13: a search with mmr and lambda 0.5 over two near-duplicates of high
\* relevance and a dissimilar candidate of moderate relevance returns the
\* dissimilar one before the second near-duplicate.
C13_MmrDiversity ==
    (last.op = "search" /\ last.stage = "done" /\ last.n_results >= 2
        /\ ConfigGet(last.config, "use_mmr", FALSE) /\ ConfigGet(last.config, "mmr_lambda", 7) = 5
        /\ ~last.user_context.given /\ Diverse(last.fetched))
    => last.results[1].content # last.results[2].content

\* ----------------------------------------------------------- claims, failures
\* the ids add_documents derived for the documents of the batches it wrote
WrittenIds(call) ==
    { call.ids[i] : i \in { j \in 1..Len(call.ids) : ((j - 1) \div call.batch_size) + 1 \in Range(call.written) } }

\* what a record holds, without the history kept in under
Data(recs) == { [id |-> r.id, content |-> r.content, metadata |-> r.metadata, embedding |-> r.embedding] : r \in recs }

\* the collection of the call gained the records of the batches written, and
\* nothing else of the store changed
OnlyWrittenAdded(call) ==
    LET h == Handle(collections', call.name)
        before == IF h \in DOMAIN chroma THEN chroma[h] ELSE {}
    IN  /\ StoredIds(chroma'[h]) = StoredIds(before) \cup WrittenIds(call)
        /\ Data(before) \subseteq Data(chroma'[h])
        /\ \A n \in DOMAIN chroma \ { h } : chroma'[n] = chroma[n]

\* C14: add_documents returns True when it met no error or only the shutdown
\* error, and False on any other error; after the shutdown error the batches
\* written before it are stored, and the batch in progress and the later
\* ones are not.
C14_ShutdownIsSuccess ==
    [][ last'.op = "add" =>
            /\ last'.ret <=> last'.error \in { "none", "shutdown" }
            /\ last'.error = "shutdown" =>
                  /\ OnlyWrittenAdded(last')
                  /\ Len(last'.written) < BatchCount(Len(last'.docs_in), last'.batch_size)
                  /\ \A b \in 1..Len(last'.written) : last'.written[b] = b
      ]_vars

\* a call of two batches that met the shutdown error in the second
C14_Witness ==
    /\ last.op = "add" /\ last.error = "shutdown" /\ last.ret
    /\ last.written = << 1 >> /\ Len(last.docs_in) = 2 /\ last.batch_size = 1
    /\ WrittenIds(last) \subseteq StoredIds(RecordsOf(last.name))

\* C15: when the provider raises another error than shutdown for a record of
\* batch k, add_documents returns False, no record of batch k or later is
\* written, the failing record has no cache entry, and the batches written
\* before and the cache entries there were are as they were.
C15_ProviderErrorLeavesState ==
    [][ (last'.op = "add" /\ last'.error = "other") =>
            /\ ~last'.ret
            /\ OnlyWrittenAdded(last')
            /\ last'.ids[Len(last'.ids)] \notin DOMAIN embedding_cache'
            /\ \A k \in DOMAIN embedding_cache :
                  k \in DOMAIN embedding_cache' /\ embedding_cache'[k] = embedding_cache[k]
      ]_vars

\* the provider failed for the second record of a call after the first batch
\* had been written
C15_Witness ==
    /\ last.op = "add" /\ last.error = "other" /\ ~last.ret
    /\ last.written = << 1 >> /\ Len(last.ids) = 2
    /\ last.ids[1] \in DOMAIN embedding_cache /\ last.ids[2] \notin DOMAIN embedding_cache

\* --------------------------------------------------------- claims, concurrency
\* both tasks have returned
BothDone == DOMAIN last.tasks = Tasks /\ \A t \in Tasks : last.tasks[t].status # "run"

\* both tasks were given equal records for the same collection
SameRecords ==
    /\ last.op = "tasks" /\ BothDone
    /\ last.tasks[1].docs_in = last.tasks[2].docs_in
    /\ last.tasks[1].name = last.tasks[2].name

\* both derived the same ids, both returned True, one record for each id
SameOutcome ==
    /\ last.tasks[1].all_ids = last.tasks[2].all_ids
    /\ \A t \in Tasks : last.tasks[t].ret
    /\ \A id \in Range(last.tasks[1].all_ids) :
          Cardinality({ r \in chroma[last.tasks[1].handle] : r.id = id }) = 1

\* C16: two concurrent add_documents calls given equal records for the same
\* collection derive the same ids, and once both have returned both have
\* returned True and the collection holds exactly one record for each id.
C16_ConcurrentSameRecords == SameRecords => SameOutcome

\* two calls that also split the records into batches of one size end alike
SameCallsSameOutcome ==
    (SameRecords /\ last.tasks[1].batch_size = last.tasks[2].batch_size) => SameOutcome

\* ------------------------------------------------------- claims, cache file
\* every entry of the cache is in the file
Persisted(cache, file) == \A k \in DOMAIN cache : k \in DOMAIN file /\ file[k] = cache[k]

\* C17: on a graceful shutdown the embedding cache is written back: the file
\* then holds every entry the cache in memory held, however many entries were
\* inserted since the last flush.
C17_ShutdownFlushesCache ==
    [][ last'.op = "shutdown" => Persisted(embedding_cache, cache_file') ]_vars

\* C18: after an abrupt end of the process, at any point and also inside a
\* flush, the cache file loads to a complete earlier snapshot: every entry an
\* earlier completed flush had persisted is loaded again.
C18_KillKeepsPersisted ==
    [][ last'.op \in { "killed", "restart" } =>
            Persisted(LoadEmbeddingCache(cache_file), embedding_cache') ]_vars

\* C20: load_curriculum_data(force_reload=False) while the curriculum
\* collection holds at least one record returns True and leaves the
\* collections, the embedding cache, its file and the provider calls as they
\* were.
C20_WarmStartNoOp ==
    [][ (/\ last'.op = "load" /\ ~last'.force
         /\ Cardinality(chroma[Handle(collections, "curriculum")]) > 0) =>
            /\ last'.ret
            /\ UNCHANGED << collections, chroma, embedding_cache, cache_file, provider_calls >> ]_vars

\* a load that was not forced has returned at once, with a record stored
C20_Witness ==
    /\ last.op = "load" /\ ~last.force /\ last.ret /\ last.ids = <<>>
    /\ Cardinality(chroma[Handle(collections, "curriculum")]) > 0

\* ------------------------------------------------------------ claims, answers
\* the call did not raise, and ran the search and built the context from its
\* result when no context was supplied
AnswerShape ==
    /\ ~last.raised
    /\ last.answer.searched => last.answer.context = ContextParts(last.results)

Overlap(query, content) ==
    LET q == Terms(Lower(query))
    IN  IF q = {} THEN 0 ELSE (Cardinality(q \cap Terms(Lower(content))) * ScoreScale) \div Cardinality(q)

\* C23: with keyword_weight > 0 the score of every candidate becomes
\* semantic_weight * old + keyword_weight * r, r the share of the query terms
\* found among the content terms (0 without query terms); with the default
\* weights a candidate with r = 0 and old score 1 does not gain, and one with
\* r = 1 and an old score below 1 gains strictly.
C23_KeywordBlend ==
    (last.op = "score" /\ ConfigGet(last.config, "keyword_weight", 0) > 0) =>
        \A i \in 1..Len(last.fetched) :
            LET old == last.fetched[i].score
                new == last.blended[i].score
                r == Overlap(last.query, last.fetched[i].content)
            IN  /\ new * 10 = ConfigGet(last.config, "semantic_weight", 7) * old
                               + ConfigGet(last.config, "keyword_weight", 3) * r
                /\ last.config = DefaultSearchConfig =>
                      /\ (r = 0 /\ old = ScoreScale) => new <= old
                      /\ (r = ScoreScale /\ old < ScoreScale) => new > old

\* a full match below the top score and a candidate without overlap at the
\* top score were blended with the default weights
C23_Witness ==
    /\ last.op = "score" /\ last.config = DefaultSearchConfig
    /\ Overlap(last.query, last.fetched[1].content) = 0 /\ last.fetched[1].score = ScoreScale
    /\ Overlap(last.query, last.fetched[2].content) = ScoreScale /\ last.fetched[2].score < ScoreScale
    /\ last.blended[2].score > last.fetched[2].score

\* the candidate matches a weak subject or the target exam
Boosted(result, user_context) ==
    \/ \E w \in Range(user_context.weak_subjects) : IsSubstring(w, Lower(result.metadata.subject))
    \/ (user_context.exam_target # <<>> /\ IsSubstring(user_context.exam_target, result.metadata.exam_type))

\* the place of the candidate with the id in a returned list
Place(results, id) == CHOOSE i \in 1..Len(results) : results[i].id = id

\* C29: the personalization never lowers a candidate: for every score the
\* stages before it can leave (1 - distance, distance from 0 to 2, then the
\* keyword blend) a matching candidate scores at least what it scored before
\* the boost, and stands in the returned ranking no further back than in the
\* same search without user_context.
C29_BoostNeverLowers ==
    (last.op = "score" /\ last.user_context.given) =>
        \A i \in 1..Len(last.fetched) :
            Boosted(last.fetched[i], last.user_context) =>
                /\ last.boosted[i].score >= last.blended[i].score
                /\ Place(last.results, last.fetched[i].id) <= Place(last.plain, last.fetched[i].id)

\* ----------------------------------------------------- claims, mmr and config
\* where the fetch loop had put the i-th of the results
FetchPlace(results, i) ==
    CHOOSE k \in 1..Len(last.fetched) :
        last.fetched[k].id = results[i].id /\ last.fetched[k].collection = results[i].collection

\* by descending score, ties in fetch order
Ordered(results) ==
    \A i, j \in 1..Len(results) :
        i < j => \/ results[i].score > results[j].score
                 \/ results[i].score = results[j].score /\ FetchPlace(results, i) < FetchPlace(results, j)

\* C28: for the candidates search builds, which carry no embedding, the mmr
\* stage changes nothing of what is returned, whatever mmr_lambda: the first
\* n_results candidates by descending score, ties in fetch order.
C28_MmrIsTopN ==
    [][ (last.op = "search" /\ last.stage = "mmr" /\ last'.stage = "truncate" /\ "mmr" \in last'.ran) =>
            /\ Ordered(last.results)
            /\ Truncate(last'.results, last.n_results) = Truncate(last.results, last.n_results) ]_vars

\* mmr has run on more candidates than are asked for, two of them with one
\* score
C28_Witness ==
    /\ last.op = "search" /\ last.stage = "truncate" /\ "mmr" \in last.ran
    /\ Len(last.fetched) > last.n_results /\ last.n_results = 2
    /\ \E i, j \in 1..Len(last.fetched) : i # j /\ last.fetched[i].score = last.fetched[j].score
    /\ \E i, j \in 1..Len(last.fetched) : last.fetched[i].score # last.fetched[j].score

\* C30: a search_config that is given and not empty is the whole config:
\* without keyword_weight the keyword stage is skipped, without use_mmr the mmr
\* stage; None or an empty config selects the default configuration, weights
\* 0.7 and 0.3, mmr on, lambda 0.7.
C30_ConfigNotMerged ==
    (last.op = "search" /\ last.stage = "done") =>
        IF last.search_config.keys # {}
        THEN /\ last.config = last.search_config
             /\ "keyword_weight" \notin last.search_config.keys => "keyword" \notin last.ran
             /\ "use_mmr" \notin last.search_config.keys => "mmr" \notin last.ran
        ELSE /\ last.config = DefaultSearchConfig
             /\ { "keyword", "mmr" } \subseteq last.ran
             /\ ConfigGet(last.config, "semantic_weight", 0) = 7
             /\ ConfigGet(last.config, "keyword_weight", 0) = 3
             /\ ConfigGet(last.config, "mmr_lambda", 0) = 7

\* a search with only keyword_weight in its config has returned candidates
\* without the mmr stage
C30_Witness ==
    /\ last.op = "search" /\ last.stage = "done" /\ last.results # <<>>
    /\ last.search_config = KeywordOnly
    /\ "keyword" \in last.ran /\ "mmr" \notin last.ran

\* ------------------------------------------------------ claims, the records
\* C26: add_documents leaves the records it is given as they were, metadata
\* included, so that a second call with the same record objects derives the
\* ids of the first.
C26_RecordsUnchanged ==
    [][ last'.op = "add" =>
            /\ last'.docs_out = last'.docs_in
            /\ (last.op = "add" /\ last'.docs_in = last.docs_out /\ last'.batch_size = last.batch_size)
                   => last'.ids = last.ids ]_vars

\* C27: the ids add_documents derives for a list of records, and the number
\* of records it stores, are those of the whole list as one batch, whatever
\* batch_size: of two equal records the later one gets the suffixed id also
\* when the two fall into different batches.
C27_BatchSizeIrrelevant ==
    (last.op = "add" /\ last.error = "none" /\ last.name = "documents"
        /\ chroma[Handle(collections, "documents")] = { r \in chroma[Handle(collections, "documents")] : r.id \in Range(last.ids) }) =>
        /\ \A i \in 1..Len(last.docs_in) :
              last.ids[i] = UniqueId(GenerateDocumentId(last.docs_in[i].content \o MetaStr(MetaOf(last.docs_in[i]))),
                                     0, SubSeq(last.ids, 1, i - 1))
        /\ Cardinality(chroma[Handle(collections, "documents")]) = Len(last.docs_in)

\* ------------------------------------------------- claims, the collections map
\* C25: the collections map a construction leaves is the same with and
\* without the marker file: its keys are the six logical names, no two keys
\* are bound to one store collection, and a search over all collections
\* returns no stored record twice.
C25_SameMapEitherWay ==
    /\ Keys(collections) = Range(RequiredKeys)
    /\ \A i, j \in 1..Len(collections) : i # j => collections[i].handle # collections[j].handle
    /\ (last.op = "search" /\ last.names = <<>>) =>
          \A i, j \in 1..Len(last.results) :
              (/\ i # j
               /\ last.results[i].id = last.results[j].id
               /\ Handle(collections, last.results[i].collection) = Handle(collections, last.results[j].collection))
              => FALSE

\* ------------------------------------------------------ claims, flush cadence
\* the entries of the cache that the file does not hold
Unsaved(cache, file) == { k \in DOMAIN cache : k \notin DOMAIN file }

\* C24: the cache is flushed exactly when an insertion makes its size a
\* multiple of 10, and by the save that ends a curriculum load; with every
\* save succeeding, at most 9 entries of the cache are missing from the file.
C24_FlushCadence ==
    [][ /\ last'.op = "embed" =>
              /\ cache_file' # cache_file <=>
                    (embedding_cache' # embedding_cache /\ Cardinality(DOMAIN embedding_cache') % 10 = 0)
              /\ cache_file' # cache_file => cache_file' = embedding_cache'
        /\ (last'.op = "load" /\ last'.ids # <<>>) => cache_file' = embedding_cache'
        /\ Cardinality(Unsaved(embedding_cache', cache_file')) <= 9 ]_vars

\* the eleventh entry was inserted after the flush of the first ten
C24_Witness ==
    /\ last.op = "embed" /\ last.sent # <<>>
    /\ Cardinality(DOMAIN embedding_cache) = 11 /\ Cardinality(DOMAIN cache_file) = 10

\* ------------------------------------------------ claims, related content
\* the pairs of a subject and a grade of the selection
Branches == { << last.topics[i].ders, last.topics[j].sinif >> : i, j \in 1..Len(last.topics) }

\* a search was issued for the subject under the grade filter
Issued(subject, grade) ==
    \E k \in 1..Len(last.searches) : last.searches[k].subject = subject /\ last.searches[k].grade = grade

\* C21: with relation 'prerequisite' or 'advanced' the branch of a grade that
\* is not numeric issues no search, the branch of a numeric grade g searches
\* under the grade g-1 or g+1, and no other search is issued.
C21_NonNumericSkipped ==
    (last.op = "related" /\ last.relation \in { "prerequisite", "advanced" }) =>
        LET by == IF last.relation = "prerequisite" THEN 0 - 1 ELSE 1
            wanted == { << b[1], Digits(b[2].n + by) >> : b \in { x \in Branches : x[2].kind = "digits" } }
        IN  \A s \in CourseNames, g \in ShiftedGrades : Issued(s, g) <=> << s, g >> \in wanted

\* ------------------------------------------------ claims, coverage analysis
\* a recommendation of the kind was emitted for the subject
Recommended(kind, subject) ==
    \E k \in 1..Len(last.recommendations) :
        last.recommendations[k].kind = kind /\ last.recommendations[k].subject = subject

\* the status is the bucket of selected/total*100: High above 70, Medium
\* above 40 up to 70, Low otherwise and when total is 0
Bucketed(a) ==
    LET sel == a.selected_topics_count
        tot == a.total_available_topics
    IN  /\ a.coverage_status = "High" <=> (tot > 0 /\ sel * 100 > 70 * tot)
        /\ a.coverage_status = "Medium" <=> (tot > 0 /\ sel * 100 > 40 * tot /\ sel * 100 <= 70 * tot)
        /\ a.coverage_status \in { "High", "Medium", "Low" }
        /\ tot = 0 => a.coverage_percentage = 0
        /\ tot > 0 => (a.coverage_percentage * tot - sel * 10000) * 2 \in (0 - tot)..tot

\* C22: every subject is bucketed by selected/total*100, is recommended more
\* topics exactly when its status is Low, and other grade levels exactly when
\* fewer than two of its grades are selected.
C22_CoverageBuckets ==
    last.op = "coverage" =>
        \A subject \in DOMAIN last.analysis :
            LET a == last.analysis[subject]
            IN  /\ Bucketed(a)
                /\ Recommended("more_topics", subject) <=> a.coverage_status = "Low"
                /\ Recommended("other_grades", subject) <=> Cardinality(a.grades_covered) < 2

====
